---- MODULE Spec2Model ----
(***************************************************************************)
(* Timeline evaluation engine of the parade simulator                      *)
(* (src/utils/animationUtils.ts): getParadeStateAtTime and                 *)
(* applyGroupTransform, over an explicit object heap so that copying,      *)
(* aliasing and mutation of the caller's objects are observable.           *)
(*                                                                         *)
(* Numbers.  A JavaScript number is modelled as an extended rational       *)
(* <<n, d>> in lowest terms: d > 0 is the finite value n/d, <<0, 0>> is    *)
(* NaN, <<1, 0>> is +Infinity and <<-1, 0>> is -Infinity.  Arithmetic on   *)
(* finite values is exact (IEEE-754 rounding and the sign of zero are not  *)
(* modelled); arithmetic on the special values follows IEEE-754.           *)
(* <<0, -2>> stands for an absent (undefined) payload field and <<0, -1>>  *)
(* for JSON null.                                                          *)
(***************************************************************************)
EXTENDS Integers, Sequences, FiniteSets, TLC

\* ------------------------------------------------------------------------
\* Numbers
\* ------------------------------------------------------------------------

IAbs(i) == IF i < 0 THEN -i ELSE i

ISign(i) == IF i < 0 THEN -1 ELSE IF i > 0 THEN 1 ELSE 0

RECURSIVE Gcd(_, _)
Gcd(a, b) == IF b = 0 THEN a ELSE Gcd(b, a % b)

Norm(n, d) ==
    IF d = 0 THEN <<ISign(n), 0>>
    ELSE LET g == Gcd(IAbs(n), IAbs(d))
             s == IF d < 0 THEN -1 ELSE 1
         IN  <<(s * n) \div g, (s * d) \div g>>

NaN == <<0, 0>>
PInf == <<1, 0>>
NInf == <<-1, 0>>
Undef == <<0, -2>>
JsonNull == <<0, -1>>

I(n) == <<n, 1>>
Q(n, d) == Norm(n, d)

\* Number.isFinite: false for NaN, the infinities, undefined and null.
NumberIsFinite(a) == a[2] > 0

\* a + b
RAdd(a, b) ==
    IF a[2] = 0 /\ b[2] = 0
    THEN (IF a = b THEN a ELSE NaN)
    ELSE Norm(a[1] * b[2] + b[1] * a[2], a[2] * b[2])

RNeg(a) == <<-a[1], a[2]>>

\* a - b
RSub(a, b) == RAdd(a, RNeg(b))

\* a * b  (0 * Infinity = NaN)
RMul(a, b) == Norm(a[1] * b[1], a[2] * b[2])

\* a / b  (x/0 = +-Infinity, 0/0 = NaN, x/Infinity = 0)
RDiv(a, b) ==
    LET s == IF b[1] < 0 THEN -1 ELSE 1
    IN  Norm(s * a[1] * b[2], s * a[2] * b[1])

\* a < b, a <= b: false as soon as one side is NaN
RLt(a, b) ==
    /\ a # NaN
    /\ b # NaN
    /\ IF a[2] = 0 /\ b[2] = 0 THEN a[1] < b[1]
       ELSE a[1] * b[2] < b[1] * a[2]

RLe(a, b) ==
    /\ a # NaN
    /\ b # NaN
    /\ IF a[2] = 0 /\ b[2] = 0 THEN a[1] <= b[1]
       ELSE a[1] * b[2] <= b[1] * a[2]

\* Math.max, Math.min: NaN as soon as one argument is NaN
MathMax(a, b) == IF a = NaN \/ b = NaN THEN NaN ELSE IF RLt(a, b) THEN b ELSE a

MathMin(a, b) == IF a = NaN \/ b = NaN THEN NaN ELSE IF RLt(b, a) THEN b ELSE a

MathAbs(a) == <<IAbs(a[1]), a[2]>>

\* Math.pow(a, 2)
Sq(a) == RMul(a, a)

\* Largest r in lo..hi with r * r <= v (lo * lo <= v < (hi+1) * (hi+1)).
RECURSIVE ISqrtIn(_, _, _)
ISqrtIn(v, lo, hi) ==
    IF lo >= hi THEN lo
    ELSE LET mid == (lo + hi + 1) \div 2
         IN  IF mid * mid <= v THEN ISqrtIn(v, mid, hi) ELSE ISqrtIn(v, lo, mid - 1)

ISqrt(v) == ISqrtIn(v, 0, IF v < 1024 THEN 32 ELSE 4096)

\* Resolution of the square root of a value that has no rational root: the
\* root is rounded down to a multiple of 1/(d * SqrtScale).
SqrtScale == 16

\* Math.sqrt: exact where the root is rational, rounded otherwise.
MathSqrt(a) ==
    IF a = NaN \/ a[1] < 0 THEN NaN
    ELSE IF a[2] = 0 THEN PInf
    ELSE LET rn == ISqrt(a[1])
             rd == ISqrt(a[2])
         IN  IF rn * rn = a[1] /\ rd * rd = a[2] THEN Norm(rn, rd)
             ELSE Norm(ISqrt(a[1] * a[2] * SqrtScale * SqrtScale), a[2] * SqrtScale)

\* <<Math.cos(rad), Math.sin(rad)>> for rad = deg * (Math.PI / 180), tabulated
\* at the multiples of 90 degrees, the only angles the bounded inputs
\* produce, with the exact values (Math.cos(Math.PI / 2) is 6.1e-17 in
\* IEEE-754, 0 here).  NaN for a non-finite angle.
CosSin(deg) ==
    IF ~NumberIsFinite(deg) THEN <<NaN, NaN>>
    ELSE LET k == ((deg[1] \div (90 * deg[2])) % 4)
         IN  CASE deg[1] % (90 * deg[2]) = 0 /\ k = 0 -> <<I(1), I(0)>>
               [] deg[1] % (90 * deg[2]) = 0 /\ k = 1 -> <<I(0), I(1)>>
               [] deg[1] % (90 * deg[2]) = 0 /\ k = 2 -> <<I(-1), I(0)>>
               [] deg[1] % (90 * deg[2]) = 0 /\ k = 3 -> <<I(0), I(-1)>>

\* const lerp = (start, end, t) => ...
lerp(start, end, t) ==
    LET s == IF NumberIsFinite(start) THEN start ELSE I(0)
        e == IF NumberIsFinite(end) THEN end ELSE s
        ratio == MathMax(I(0), MathMin(I(1), t))
    IN  RAdd(s, RMul(RSub(e, s), ratio))

\* ------------------------------------------------------------------------
\* Data model (src/types.ts) on a heap
\*
\* A heap is a record of stores; a store is a sequence and an address is an
\* index into it.
\*   arr  : entity arrays, each a sequence of ent addresses
\*   ent  : Entity objects   [id, x, y, rotation, groupId, config]
\*          (groupId "" when absent; config a cfg address, 0 when absent)
\*   cfg  : Entity.config objects         [ranks]
\*   map  : Record<string, GroupMetadata> objects, group id -> grp address
\*   grp  : GroupMetadata objects         [id, rotation, config]
\*   gcfg : GroupMetadata.config objects  [rows]
\*   acts : AnimationTrack.actions arrays, each a sequence of actions
\* An AnimationAction is a record with its payload flattened into it; an
\* absent number is Undef, an absent string is "", an absent waypoint is <<>>
\* and a waypoint is <<x, y>>.
\* ------------------------------------------------------------------------

Entity(id, x, y, rotation, groupId, config) ==
    [id |-> id, x |-> x, y |-> y, rotation |-> rotation, groupId |-> groupId,
     config |-> config]

AnimationAction(id, type, startTime, duration) ==
    [id |-> id, type |-> type, startTime |-> startTime, duration |-> duration,
     targetX |-> Undef, targetY |-> Undef, movePathMode |-> "",
     orthogonalOrder |-> "", waypoint |-> <<>>, groupAnchor |-> "",
     targetRotation |-> Undef, wheelAngle |-> Undef, pivotCorner |-> ""]

\* ------------------------------------------------------------------------
\* getParadeStateAtTime, step 1: the copies
\* ------------------------------------------------------------------------

\* A bug's version of CopyEntity: the plain spread { ...e }.
CopyEntityRaw(e) == e

\* The fresh object { ...e, x: ..., y: ..., rotation: ... }: every field of
\* e is copied as it is (config by reference), the three numbers sanitised.
CopyEntity(e) ==
    [e EXCEPT !.x = IF NumberIsFinite(e.x) THEN e.x ELSE I(0),
              !.y = IF NumberIsFinite(e.y) THEN e.y ELSE I(0),
              !.rotation = IF NumberIsFinite(e.rotation) THEN e.rotation ELSE I(0)]

\* A bug's version of CopyEntities: the array is new, its elements are the
\* caller's entity objects.
CopyEntitiesAliased(h, a) ==
    [heap |-> [h EXCEPT !.arr = Append(@, h.arr[a])], addr |-> Len(h.arr) + 1]

\* baseState.entities.map(e => ({ ...e, ... })): a new array of new entity
\* objects.  Returns the heap and the address of the new array.
CopyEntities(h, a) ==
    LET old == h.arr[a]
        n == Len(old)
        first == Len(h.ent)
    IN  [heap |-> [h EXCEPT
                     !.ent = @ \o [i \in 1..n |-> CopyEntity(h.ent[old[i]])],
                     !.arr = Append(@, [i \in 1..n |-> first + i])],
         addr |-> Len(h.arr) + 1]

\* JSON.stringify of a number: a non-finite number becomes null.
JsonNumber(a) == IF a[2] = 0 THEN JsonNull ELSE a

\* The groups of a groups map, as a sequence in key order.
RECURSIVE SetToSeq(_)
SetToSeq(S) ==
    IF S = {} THEN <<>>
    ELSE LET x == CHOOSE y \in S : TRUE IN <<x>> \o SetToSeq(S \ {x})

\* JSON.parse(JSON.stringify(baseState.groups)): a new map of new group
\* objects, each with a new config object.
CloneGroups(h, m) ==
    LET ids == SetToSeq(DOMAIN h.map[m])
        n == Len(ids)
        g(i) == h.grp[h.map[m][ids[i]]]
        firstGrp == Len(h.grp)
        firstCfg == Len(h.gcfg)
        \* the groups that have a config, in key order
        withCfg == SelectSeq([i \in 1..n |-> i], LAMBDA i : g(i).config # 0)
        cfgIndex(i) == CHOOSE k \in 1..Len(withCfg) : withCfg[k] = i
    IN  [heap |-> [h EXCEPT
                     !.gcfg = @ \o [k \in 1..Len(withCfg) |-> h.gcfg[g(withCfg[k]).config]],
                     !.grp = @ \o [i \in 1..n |->
                                [g(i) EXCEPT
                                   !.rotation = JsonNumber(@),
                                   !.config = IF @ = 0 THEN 0 ELSE firstCfg + cfgIndex(i)]],
                     !.map = Append(@, [id \in DOMAIN h.map[m] |->
                                firstGrp + (CHOOSE i \in 1..n : ids[i] = id)])],
         addr |-> Len(h.map) + 1]

\* ------------------------------------------------------------------------
\* getParadeStateAtTime, step 3: one track
\* ------------------------------------------------------------------------

\* The sign of the comparator a.startTime - b.startTime (NaN compares equal).
CompareStart(a, b) ==
    LET d == RSub(a.startTime, b.startTime) IN ISign(d[1])

\* Stable insertion of a into a sequence sorted by startTime.
RECURSIVE InsertByStart(_, _)
InsertByStart(sorted, a) ==
    IF sorted = <<>> THEN <<a>>
    ELSE IF CompareStart(sorted[Len(sorted)], a) <= 0 THEN Append(sorted, a)
    ELSE Append(InsertByStart(SubSeq(sorted, 1, Len(sorted) - 1), a), sorted[Len(sorted)])

\* A bug's version of SortByStart: the actions are taken in stored order.
NoSort(actions) == actions

RECURSIVE SortByStart(_)
SortByStart(actions) ==
    IF actions = <<>> THEN <<>>
    ELSE InsertByStart(SortByStart(SubSeq(actions, 1, Len(actions) - 1)),
                       actions[Len(actions)])

\* A bug's version of SortedActions: track.actions.sort(...) sorts the
\* caller's array in place.
SortedInPlace(h, a) ==
    [heap |-> [h EXCEPT !.acts[a] = SortByStart(@)], actions |-> SortByStart(h.acts[a])]

\* [...track.actions].sort((a, b) => a.startTime - b.startTime): a sorted
\* copy; the track's own array is left as it is.
SortedActions(h, a) ==
    [heap |-> h, actions |-> SortByStart(h.acts[a])]

\* Math.max(0.001, action.duration)
Epsilon == <<1, 1000>>

\* A bug's version of ClampDuration: the duration is used as stored.
ClampDurationNone(action) == action.duration

ClampDuration(action) == MathMax(Epsilon, action.duration)

\* Math.max(0, Math.min(1, (time - startTime) / duration))
Progress(action, time) ==
    MathMax(I(0), MathMin(I(1), RDiv(RSub(time, action.startTime), ClampDuration(action))))

\* x || dflt for a number: 0, NaN, undefined and null are falsy
OrNumber(x, dflt) == IF x[2] < 0 \/ x = NaN \/ x = I(0) THEN dflt ELSE x

\* s || dflt for a string
OrString(s, dflt) == IF s = "" THEN dflt ELSE s

Dist(ax, ay, bx, by) == MathSqrt(RAdd(Sq(RSub(bx, ax)), Sq(RSub(by, ay))))

\* ------------------------------------------------------------------------
\* Single entity logic: one iteration of `for (const action of actions)`
\* ------------------------------------------------------------------------

\* The waypoint branch of a MOVE from (sx, sy): start -> w -> target.
EntityMoveWaypoint(action, p, sx, sy, tx, ty) ==
    LET wx == IF NumberIsFinite(action.waypoint[1]) THEN action.waypoint[1] ELSE sx
        wy == IF NumberIsFinite(action.waypoint[2]) THEN action.waypoint[2] ELSE sy
        d1 == Dist(sx, sy, wx, wy)
        d2 == Dist(wx, wy, tx, ty)
        totalDist == RAdd(d1, d2)
        splitPoint == RDiv(d1, totalDist)
    IN  IF RLe(totalDist, Epsilon) THEN <<tx, ty>>
        ELSE IF RLe(p, splitPoint)
        THEN LET q == IF splitPoint = I(0) THEN I(1) ELSE RDiv(p, splitPoint)
             IN  <<lerp(sx, wx, q), lerp(sy, wy, q)>>
        ELSE LET q == RDiv(RSub(p, splitPoint), RSub(I(1), splitPoint))
             IN  <<lerp(wx, tx, q), lerp(wy, ty, q)>>

\* movePathMode === 'DIRECT'
EntityMoveDirect(p, sx, sy, tx, ty) ==
    <<lerp(sx, tx, p), lerp(sy, ty, p)>>

\* The orthogonal branch of a MOVE from (sx, sy).
EntityMoveOrthogonal(action, p, sx, sy, tx, ty) ==
    LET distX == RSub(tx, sx)
        distY == RSub(ty, sy)
        totalDist == RAdd(MathAbs(distX), MathAbs(distY))
        fracX == RDiv(MathAbs(distX), totalDist)
        fracY == RDiv(MathAbs(distY), totalDist)
    IN  IF RLe(totalDist, Epsilon) THEN <<tx, ty>>
        ELSE IF action.orthogonalOrder = "Y_THEN_X"
        THEN IF RLt(p, fracY)
             THEN <<sx, lerp(sy, ty, RDiv(p, fracY))>>
             ELSE <<lerp(sx, tx, RDiv(RSub(p, fracY), RSub(I(1), fracY))), ty>>
        ELSE IF RLt(p, fracX)
             THEN <<lerp(sx, tx, RDiv(p, fracX)), sy>>
             ELSE <<tx, lerp(sy, ty, RDiv(RSub(p, fracX), RSub(I(1), fracX)))>>

\* A bug's version of EntityStep: the TURN branch also puts the entity at the
\* origin.
EntityStepTurnMoves(action, time, cur) ==
    LET clampedProgress == Progress(action, time)
        startX == cur.x
        startY == cur.y
        startRot == cur.rot
    IN  CASE action.type = "MOVE" ->
               LET targetX == IF NumberIsFinite(action.targetX) THEN action.targetX ELSE startX
                   targetY == IF NumberIsFinite(action.targetY) THEN action.targetY ELSE startY
                   pos == IF action.waypoint # <<>>
                          THEN EntityMoveWaypoint(action, clampedProgress, startX, startY, targetX, targetY)
                          ELSE IF action.movePathMode = "DIRECT"
                          THEN EntityMoveDirect(clampedProgress, startX, startY, targetX, targetY)
                          ELSE EntityMoveOrthogonal(action, clampedProgress, startX, startY, targetX, targetY)
               IN  [cur EXCEPT !.x = pos[1], !.y = pos[2]]
          [] action.type = "TURN" ->
               LET targetRot == IF NumberIsFinite(action.targetRotation)
                                THEN action.targetRotation ELSE startRot
               IN  [cur EXCEPT !.rot = lerp(startRot, targetRot, clampedProgress),
                               !.x = I(0), !.y = I(0)]
          [] action.type = "WHEEL" ->
               LET angle == OrNumber(action.wheelAngle, I(90))
               IN  [cur EXCEPT !.rot = RAdd(@, RMul(angle, clampedProgress))]
          [] OTHER -> cur

\* The body of the loop for one action, from the running state cur =
\* [x, y, rot] (time >= action.startTime holds here).
EntityStep(action, time, cur) ==
    LET clampedProgress == Progress(action, time)
        startX == cur.x
        startY == cur.y
        startRot == cur.rot
    IN  CASE action.type = "MOVE" ->
               LET targetX == IF NumberIsFinite(action.targetX) THEN action.targetX ELSE startX
                   targetY == IF NumberIsFinite(action.targetY) THEN action.targetY ELSE startY
                   pos == IF action.waypoint # <<>>
                          THEN EntityMoveWaypoint(action, clampedProgress, startX, startY, targetX, targetY)
                          ELSE IF action.movePathMode = "DIRECT"
                          THEN EntityMoveDirect(clampedProgress, startX, startY, targetX, targetY)
                          ELSE EntityMoveOrthogonal(action, clampedProgress, startX, startY, targetX, targetY)
               IN  [cur EXCEPT !.x = pos[1], !.y = pos[2]]
          [] action.type = "TURN" ->
               LET targetRot == IF NumberIsFinite(action.targetRotation)
                                THEN action.targetRotation ELSE startRot
               IN  [cur EXCEPT !.rot = lerp(startRot, targetRot, clampedProgress)]
          [] action.type = "WHEEL" ->
               LET angle == OrNumber(action.wheelAngle, I(90))
               IN  [cur EXCEPT !.rot = RAdd(@, RMul(angle, clampedProgress))]
          [] OTHER -> cur

\* A bug's version of EntityWalk: the loop also ends after the first action
\* that is still in progress.
RECURSIVE EntityWalkEarlyStop(_, _, _)
EntityWalkEarlyStop(actions, time, cur) ==
    IF actions = <<>> \/ RLt(time, actions[1].startTime) THEN cur
    ELSE IF RLt(Progress(actions[1], time), I(1)) THEN EntityStep(actions[1], time, cur)
    ELSE EntityWalkEarlyStop(Tail(actions), time, EntityStep(actions[1], time, cur))

\* for (const action of actions) { if (time < action.startTime) break; ... }
RECURSIVE EntityWalk(_, _, _)
EntityWalk(actions, time, cur) ==
    IF actions = <<>> \/ RLt(time, actions[1].startTime) THEN cur
    ELSE EntityWalk(Tail(actions), time, EntityStep(actions[1], time, cur))

\* A bug's version of FindEntity: the first entity of the array stands in
\* for an owner that is not found.
FindEntityOrFirst(h, a, ownerId) ==
    LET hits == {i \in 1..Len(h.arr[a]) : h.ent[h.arr[a][i]].id = ownerId}
    IN  IF Len(h.arr[a]) = 0 THEN 0
        ELSE IF hits = {} THEN h.arr[a][1]
        ELSE h.arr[a][CHOOSE i \in hits : \A j \in hits : i <= j]

\* The address of the first entity of array a whose id is ownerId, 0 if none
\* (currentEntities.find(e => e.id === ownerId)).
FindEntity(h, a, ownerId) ==
    LET hits == {i \in 1..Len(h.arr[a]) : h.ent[h.arr[a][i]].id = ownerId}
    IN  IF hits = {} THEN 0
        ELSE h.arr[a][CHOOSE i \in hits : \A j \in hits : i <= j]

\* A bug's version of WriteBack: every component is written as computed.
WriteBackUnguarded(e, st) ==
    [e EXCEPT !.x = st.x, !.y = st.y, !.rotation = st.rot]

\* Write back final calculated state: a non-finite component is not written.
WriteBack(e, st) ==
    [e EXCEPT !.x = IF NumberIsFinite(st.x) THEN st.x ELSE @,
              !.y = IF NumberIsFinite(st.y) THEN st.y ELSE @,
              !.rotation = IF NumberIsFinite(st.rot) THEN st.rot ELSE @]

\* The single entity logic of one track: the heap after it.
EntityTrack(h, a, ownerId, actions, time) ==
    LET e == FindEntity(h, a, ownerId)
    IN  IF e = 0 THEN h
        ELSE LET entity == h.ent[e]
                 final == EntityWalk(actions, time,
                              [x |-> entity.x, y |-> entity.y, rot |-> entity.rotation])
             IN  [h EXCEPT !.ent[e] = WriteBack(@, final)]

\* ------------------------------------------------------------------------
\* applyGroupTransform
\* memberState is a sequence of [x, y, rot], in the order of the members.
\* ------------------------------------------------------------------------

\* let m = init; for (const s of ...) if (v(s) < m) m = v(s);   (and >)
RECURSIVE LoopMin(_, _)
LoopMin(vals, m) ==
    IF vals = <<>> THEN m
    ELSE LoopMin(Tail(vals), IF RLt(vals[1], m) THEN vals[1] ELSE m)

RECURSIVE LoopMax(_, _)
LoopMax(vals, m) ==
    IF vals = <<>> THEN m
    ELSE LoopMax(Tail(vals), IF RLt(m, vals[1]) THEN vals[1] ELSE m)

\* m = Math.min(m, v(s)) and m = Math.max(m, v(s)) over the members
RECURSIVE FoldMin(_, _)
FoldMin(vals, m) ==
    IF vals = <<>> THEN m ELSE FoldMin(Tail(vals), MathMin(m, vals[1]))

RECURSIVE FoldMax(_, _)
FoldMax(vals, m) ==
    IF vals = <<>> THEN m ELSE FoldMax(Tail(vals), MathMax(m, vals[1]))

Xs(ms) == [i \in 1..Len(ms) |-> ms[i].x]
Ys(ms) == [i \in 1..Len(ms) |-> ms[i].y]

\* if (!Number.isFinite(minX)) { minX=0; maxX=0; minY=0; maxY=0; }
BoxOrZero(minX, maxX, minY, maxY) ==
    IF NumberIsFinite(minX)
    THEN [minX |-> minX, maxX |-> maxX, minY |-> minY, maxY |-> maxY]
    ELSE [minX |-> I(0), maxX |-> I(0), minY |-> I(0), maxY |-> I(0)]

\* Bounding box of the current member state, as the MOVE branch computes it.
MoveBox(ms) ==
    BoxOrZero(LoopMin(Xs(ms), PInf), LoopMax(Xs(ms), NInf),
              LoopMin(Ys(ms), PInf), LoopMax(Ys(ms), NInf))

\* Bounding box of the current member state, as the WHEEL branch computes it.
WheelBox(ms) ==
    BoxOrZero(FoldMin(Xs(ms), PInf), FoldMax(Xs(ms), NInf),
              FoldMin(Ys(ms), PInf), FoldMax(Ys(ms), NInf))

\* The letters of an anchor code (for anchorType.includes(letter)).
AnchorLetters(code) ==
    CASE code = "TL" -> {"T", "L"} [] code = "TM" -> {"T", "M"}
      [] code = "TR" -> {"T", "R"} [] code = "CL" -> {"C", "L"}
      [] code = "C" -> {"C"}       [] code = "CR" -> {"C", "R"}
      [] code = "BL" -> {"B", "L"} [] code = "BM" -> {"B", "M"}
      [] code = "BR" -> {"B", "R"} [] OTHER -> {}

\* A bug's version of StartAnchor: the anchor code is not looked at.
StartAnchorTopLeft(box, groupAnchor) == <<box.minX, box.minY>>

\* The anchor point of a box: lines 195-204.
StartAnchor(box, groupAnchor) ==
    LET anchorType == OrString(groupAnchor, "TL")
        L == AnchorLetters(anchorType)
        midX == RDiv(RAdd(box.minX, box.maxX), I(2))
        midY == RDiv(RAdd(box.minY, box.maxY), I(2))
        x1 == IF "M" \in L \/ anchorType = "C" THEN midX ELSE box.minX
        x2 == IF "R" \in L THEN box.maxX ELSE x1
        y1 == IF "C" \in L \/ anchorType = "CL" \/ anchorType = "CR" THEN midY ELSE box.minY
        y2 == IF "B" \in L THEN box.maxY ELSE y1
    IN  <<x2, y2>>

\* The anchor's position at progress p: lines 209-259.
GroupAnchorAt(action, p, ax, ay, tx, ty) ==
    IF action.waypoint # <<>>
    THEN LET wx == IF NumberIsFinite(action.waypoint[1]) THEN action.waypoint[1] ELSE ax
             wy == IF NumberIsFinite(action.waypoint[2]) THEN action.waypoint[2] ELSE ay
             d1 == Dist(ax, ay, wx, wy)
             d2 == Dist(wx, wy, tx, ty)
             total == RAdd(d1, d2)
             split == RDiv(d1, total)
         IN  IF ~RLt(Epsilon, total) THEN <<ax, ay>>
             ELSE IF RLe(p, split)
             THEN LET q == IF split = I(0) THEN I(1) ELSE RDiv(p, split)
                  IN  <<lerp(ax, wx, q), lerp(ay, wy, q)>>
             ELSE LET q == RDiv(RSub(p, split), RSub(I(1), split))
                  IN  <<lerp(wx, tx, q), lerp(wy, ty, q)>>
    ELSE IF action.movePathMode = "DIRECT"
    THEN <<lerp(ax, tx, p), lerp(ay, ty, p)>>
    ELSE LET dx == RSub(tx, ax)
             dy == RSub(ty, ay)
             td == RAdd(MathAbs(dx), MathAbs(dy))
             fx == RDiv(MathAbs(dx), td)
             fy == RDiv(MathAbs(dy), td)
         IN  IF ~RLt(Epsilon, td) THEN <<ax, ay>>
             ELSE IF action.orthogonalOrder = "Y_THEN_X"
             THEN IF RLt(p, fy)
                  THEN <<ax, lerp(ay, ty, RDiv(p, fy))>>
                  ELSE <<lerp(ax, tx, RDiv(RSub(p, fy), RSub(I(1), fy))), ty>>
             ELSE IF RLt(p, fx)
                  THEN <<lerp(ax, tx, RDiv(p, fx)), ay>>
                  ELSE <<tx, lerp(ay, ty, RDiv(RSub(p, fx), RSub(I(1), fx)))>>

\* A bug's version of GroupTranslate: the delta is scaled by the member's
\* index (a per-member offset instead of a uniform one).
GroupTranslateSkewed(ms, deltaX, deltaY) ==
    [i \in 1..Len(ms) |->
        [ms[i] EXCEPT !.x = RAdd(@, RMul(I(i), deltaX)), !.y = RAdd(@, deltaY)]]

\* for (const s of memberState.values()) { s.x += deltaX; s.y += deltaY; }
GroupTranslate(ms, deltaX, deltaY) ==
    [i \in 1..Len(ms) |-> [ms[i] EXCEPT !.x = RAdd(@, deltaX), !.y = RAdd(@, deltaY)]]

\* action.type === 'MOVE'
GroupMove(action, progress, ms) ==
    LET start == StartAnchor(MoveBox(ms), action.groupAnchor)
        targetX == IF NumberIsFinite(action.targetX) THEN action.targetX ELSE start[1]
        targetY == IF NumberIsFinite(action.targetY) THEN action.targetY ELSE start[2]
        cur == GroupAnchorAt(action, progress, start[1], start[2], targetX, targetY)
        deltaX == RSub(cur[1], start[1])
        deltaY == RSub(cur[2], start[2])
    IN  IF NumberIsFinite(deltaX) /\ NumberIsFinite(deltaY)
        THEN GroupTranslate(ms, deltaX, deltaY)
        ELSE ms

\* A bug's version of GroupTurn: every member turns from its own rotation
\* towards the target.
GroupTurnEach(action, progress, ms) ==
    [i \in 1..Len(ms) |->
        [ms[i] EXCEPT !.rot = IF NumberIsFinite(action.targetRotation)
                              THEN lerp(@, action.targetRotation, progress) ELSE @]]

\* action.type === 'TURN'
GroupTurn(action, progress, ms) ==
    LET startRot == IF Len(ms) > 0 THEN ms[1].rot ELSE I(0)
        targetRot == IF NumberIsFinite(action.targetRotation)
                     THEN action.targetRotation ELSE startRot
        deltaRot == RMul(RSub(targetRot, startRot), progress)
    IN  IF NumberIsFinite(deltaRot)
        THEN [i \in 1..Len(ms) |-> [ms[i] EXCEPT !.rot = RAdd(@, deltaRot)]]
        ELSE ms

\* The pivot of a WHEEL: lines 299-310.
WheelPivot(box, pivotCorner) ==
    CASE pivotCorner = "CENTER" ->
           <<RDiv(RAdd(box.minX, box.maxX), I(2)), RDiv(RAdd(box.minY, box.maxY), I(2))>>
      [] pivotCorner = "BL" -> <<box.minX, box.maxY>>
      [] pivotCorner = "BR" -> <<box.maxX, box.maxY>>
      [] pivotCorner = "TR" -> <<box.maxX, box.minY>>
      [] OTHER -> <<box.minX, box.minY>>

\* One member of a WHEEL: lines 313-318.
WheelRotate(s, pivot, cs, turned) ==
    LET dx == RSub(s.x, pivot[1])
        dy == RSub(s.y, pivot[2])
    IN  [x |-> RAdd(pivot[1], RSub(RMul(dx, cs[1]), RMul(dy, cs[2]))),
         y |-> RAdd(pivot[2], RAdd(RMul(dx, cs[2]), RMul(dy, cs[1]))),
         rot |-> RAdd(s.rot, turned)]

\* action.type === 'WHEEL'
GroupWheel(action, progress, ms) ==
    LET angle == OrNumber(action.wheelAngle, I(90))
        cs == CosSin(RMul(angle, progress))
        pivot == WheelPivot(WheelBox(ms), action.pivotCorner)
    IN  [i \in 1..Len(ms) |-> WheelRotate(ms[i], pivot, cs, RMul(angle, progress))]

\* The body of the loop for one action (time >= action.startTime).
GroupStep(action, time, ms) ==
    LET progress == MathMin(I(1), MathMax(I(0),
                        RDiv(RSub(time, action.startTime), ClampDuration(action))))
    IN  CASE action.type = "MOVE" -> GroupMove(action, progress, ms)
          [] action.type = "TURN" -> GroupTurn(action, progress, ms)
          [] action.type = "WHEEL" -> GroupWheel(action, progress, ms)
          [] OTHER -> ms

RECURSIVE GroupWalk(_, _, _)
GroupWalk(actions, time, ms) ==
    IF actions = <<>> \/ RLt(time, actions[1].startTime) THEN ms
    ELSE GroupWalk(Tail(actions), time, GroupStep(actions[1], time, ms))

\* The addresses of the members of a group, in array order
\* (entities.filter(e => e.groupId === groupId)).
Members(h, a, groupId) ==
    SelectSeq(h.arr[a], LAMBDA e : h.ent[e].groupId = groupId)

\* memberState as seeded from the members: lines 168-175.
SeedMemberState(h, members) ==
    [i \in 1..Len(members) |->
        LET e == h.ent[members[i]]
        IN  [x |-> IF NumberIsFinite(e.x) THEN e.x ELSE I(0),
             y |-> IF NumberIsFinite(e.y) THEN e.y ELSE I(0),
             rot |-> IF NumberIsFinite(e.rotation) THEN e.rotation ELSE I(0)]]

\* applyGroupTransform(entities, groupId, actions, time): the heap after it.
\* (Member ids are distinct, so memberState has one entry per member.)
applyGroupTransform(h, a, groupId, actions, time) ==
    LET members == Members(h, a, groupId)
        final == GroupWalk(actions, time, SeedMemberState(h, members))
        index(e) == CHOOSE i \in 1..Len(members) : members[i] = e
    IN  IF Len(members) = 0 THEN h
        ELSE [h EXCEPT !.ent = [e \in DOMAIN h.ent |->
                  IF \E i \in 1..Len(members) : members[i] = e
                  THEN WriteBack(h.ent[e], final[index(e)])
                  ELSE h.ent[e]]]

\* ------------------------------------------------------------------------
\* getParadeStateAtTime
\* A ParadeState is [entities, groups, tracks]: the address of its entity
\* array, the address of its groups map, and its tracks in key order, each
\* [ownerId, actions] with actions the address of the track's array.
\* ------------------------------------------------------------------------

\* The callback of trackIds.forEach for one track.
ProcessTrack(h, baseState, currentEntities, track, time) ==
    IF Len(h.acts[track.actions]) = 0 THEN h
    ELSE LET s == SortedActions(h, track.actions)
             isGroup == track.ownerId \in DOMAIN s.heap.map[baseState.groups]
         IN  IF isGroup
             THEN applyGroupTransform(s.heap, currentEntities, track.ownerId, s.actions, time)
             ELSE EntityTrack(s.heap, currentEntities, track.ownerId, s.actions, time)

RECURSIVE ProcessTracks(_, _, _, _, _)
ProcessTracks(h, baseState, currentEntities, tracks, time) ==
    IF tracks = <<>> THEN h
    ELSE ProcessTracks(ProcessTrack(h, baseState, currentEntities, tracks[1], time),
                       baseState, currentEntities, Tail(tracks), time)

\* getParadeStateAtTime(baseState, time): the heap after the call and the
\* returned { entities, groups }.
getParadeStateAtTime(h, baseState, time) ==
    LET c1 == CopyEntities(h, baseState.entities)
        c2 == CloneGroups(c1.heap, baseState.groups)
        h3 == ProcessTracks(c2.heap, baseState, c1.addr, baseState.tracks, time)
    IN  [heap |-> h3, entities |-> c1.addr, groups |-> c2.addr]

\* ------------------------------------------------------------------------
\* The canvas: getAnchorPos
\* entities is a sequence of entity values.
\* ------------------------------------------------------------------------

\* getAnchorPos(entities, groupId, anchorType = 'TL')
getAnchorPos(entities, groupId, anchorType) ==
    LET members == SelectSeq(entities, LAMBDA e : e.groupId = groupId)
        code == IF anchorType = "" THEN "TL" ELSE anchorType
        L == AnchorLetters(code)
        minX == LoopMin(Xs(members), PInf)
        maxX == LoopMax(Xs(members), NInf)
        minY == LoopMin(Ys(members), PInf)
        maxY == LoopMax(Ys(members), NInf)
        midX == RDiv(RAdd(minX, maxX), I(2))
        midY == RDiv(RAdd(minY, maxY), I(2))
        ax1 == IF "M" \in L \/ code = "C" THEN midX ELSE minX
        ax == IF "R" \in L THEN maxX ELSE ax1
        ay1 == IF "C" \in L \/ code = "CL" \/ code = "CR" THEN midY ELSE minY
        ay == IF "B" \in L THEN maxY ELSE ay1
    IN  IF Len(members) = 0 THEN <<I(0), I(0)>> ELSE <<ax, ay>>

\* ------------------------------------------------------------------------
\* The work of a call: how many times the body of an action loop runs
\* ------------------------------------------------------------------------

\* A bug's version of ActionsVisited: the loop starts over from the first
\* action after each action it has applied.
RECURSIVE ActionsRevisited(_, _)
ActionsRevisited(actions, time) ==
    IF actions = <<>> \/ RLt(time, actions[1].startTime) THEN 0
    ELSE Len(actions) + ActionsRevisited(Tail(actions), time)

\* The number of iterations of `for (const action of actions)` that get
\* past `if (time < action.startTime) break`.
RECURSIVE ActionsVisited(_, _)
ActionsVisited(actions, time) ==
    IF actions = <<>> \/ RLt(time, actions[1].startTime) THEN 0
    ELSE 1 + ActionsVisited(Tail(actions), time)

\* The iterations the forEach callback runs for one track: none for a track
\* without actions, for a group without members and for an owner that is
\* not found.
TrackVisits(h, baseState, track, time) ==
    LET actions == SortedActions(h, track.actions).actions
        isGroup == track.ownerId \in DOMAIN h.map[baseState.groups]
    IN  IF Len(h.acts[track.actions]) = 0 THEN 0
        ELSE IF isGroup
        THEN (IF Len(Members(h, baseState.entities, track.ownerId)) = 0 THEN 0
              ELSE ActionsVisited(actions, time))
        ELSE (IF FindEntity(h, baseState.entities, track.ownerId) = 0 THEN 0
              ELSE ActionsVisited(actions, time))

\* ------------------------------------------------------------------------
\* Inputs
\* ------------------------------------------------------------------------

MaxTime == 4
MaxActions == 2

\* The query times.
Times == {I(t) : t \in 0..MaxTime}

P(x, y) == <<I(x), I(y)>>

\* An action starts at 0 or at 2 and lasts 2 s (a quarter-turn wheel 1 s):
\* two actions of a track are back to back, tied, or stored out of order.
Starts == {0, 2}

Move(start, target, mode, order, waypoint, anchor) ==
    [AnimationAction("a", "MOVE", I(start), I(2)) EXCEPT
        !.targetX = target[1], !.targetY = target[2], !.movePathMode = mode,
        !.orthogonalOrder = order, !.waypoint = waypoint, !.groupAnchor = anchor]

Turn(start, rotation) ==
    [AnimationAction("a", "TURN", I(start), I(2)) EXCEPT !.targetRotation = rotation]

Wheel(start, duration, angle, pivot) ==
    [AnimationAction("a", "WHEEL", I(start), I(duration)) EXCEPT
        !.wheelAngle = angle, !.pivotCorner = pivot]

\* The actions of the entity track.
EntityActions ==
    UNION {
        {Move(s, P(2, 1), "ORTHOGONAL", "X_THEN_Y", <<>>, ""),
         Move(s, P(1, 2), "", "", <<>>, ""),
         Move(s, P(1, 2), "ORTHOGONAL", "Y_THEN_X", <<>>, ""),
         Move(s, P(2, 2), "DIRECT", "", <<>>, ""),
         Move(s, P(2, 2), "ORTHOGONAL", "X_THEN_Y", P(0, 2), ""),
         Turn(s, I(90)),
         Wheel(s, 2, I(-90), "")}
        : s \in Starts}

\* The actions of the group track.  The wheels turn by multiples of 90
\* degrees at every query time.
GroupActions ==
    UNION {
        {Move(s, P(3, 1), "ORTHOGONAL", "X_THEN_Y", <<>>, ""),
         Move(s, P(2, 2), "DIRECT", "", <<>>, "BR"),
         Move(s, P(0, 2), "ORTHOGONAL", "Y_THEN_X", <<>>, "TL"),
         Move(s, P(2, 2), "", "", P(0, 2), "C"),
         Turn(s, I(90)),
         Wheel(s, 2, I(180), "CENTER"),
         Wheel(s, 1, Undef, ""),
         Wheel(s, 1, I(0), "BR")}
        : s \in Starts}

Tracks(pool) == UNION {[1..n -> pool] : n \in 0..MaxActions}

Pose(x, y, rot) == [x |-> x, y |-> y, rot |-> rot]

\* The base poses of the ungrouped entity e1.
EntityBases ==
    {Pose(I(0), I(0), I(0)), Pose(I(1), I(1), I(90)), Pose(NaN, I(1), PInf)}

\* The base poses of the members m1, m2, m3 of the group g1.
GroupBase ==
    <<Pose(I(0), I(0), I(0)), Pose(I(2), I(0), I(90)), Pose(I(0), I(1), I(0))>>

\* A scenario is a base state: the pose of e1, the poses of the members of
\* g1, and the stored action lists of the tracks of e1 and of g1 (and, where
\* a field xtrack is present, of a track whose owner is gone).
Scenario(e1, members, etrack, gtrack) ==
    [e1 |-> e1, members |-> members, etrack |-> etrack, gtrack |-> gtrack]

\* The ids of the members of g1.
MemberIds == <<"m1", "m2", "m3">>

\* The heap that holds the base state of a scenario.
MkHeap(scn) ==
    [arr |-> << [i \in 1..(1 + Len(scn.members)) |-> i] >>,
     ent |-> <<Entity("e1", scn.e1.x, scn.e1.y, scn.e1.rot, "", 1)>>
             \o [i \in 1..Len(scn.members) |->
                   Entity(MemberIds[i], scn.members[i].x, scn.members[i].y,
                          scn.members[i].rot, "g1", 0)],
     cfg |-> << [ranks |-> 3] >>,
     map |-> << [id \in {"g1"} |-> 1] >>,
     grp |-> << [id |-> "g1", rotation |-> I(0), config |-> 1] >>,
     gcfg |-> << [rows |-> 2] >>,
     acts |-> <<scn.etrack, scn.gtrack>>
              \o (IF "xtrack" \in DOMAIN scn THEN <<scn.xtrack>> ELSE <<>>)]

\* The ParadeState of a scenario (the same roots for every scenario).
BaseState ==
    [entities |-> 1, groups |-> 1,
     tracks |-> <<[ownerId |-> "e1", actions |-> 1], [ownerId |-> "g1", actions |-> 2]>>]

\* ------------------------------------------------------------------------
\* The state machine: a caller that holds a base state and evaluates it at
\* arbitrary times.
\*   scenario : the base state as it was drawn (never assigned again)
\*   heap     : the objects: those of the base state, then those of the
\*              snapshot returned last
\*   parade   : the caller's ParadeState (roots into heap)
\*   time     : the time of the last call, NaN before the first
\*   result   : the snapshot returned last: [entities, groups] (roots into
\*              heap), both 0 before the first call
\*   prevTime : the time of the call before the last (NaN if none), kept
\*              by the specification that follows sequences of calls
\*
\* The Simulator component around it (times in whole seconds):
\*   history      : the ParadeStates of the undo history, as far as the
\*                  editor's handlers look at them (see Drawing)
\*   historyIndex : the index of the current one (0-based as in the source)
\*   isPlaying    : the playback flag
\*   currentTime  : the playback clock
\* ------------------------------------------------------------------------

VARIABLES scenario, heap, parade, time, result, prevTime,
          history, historyIndex, isPlaying, currentTime

vars == <<scenario, heap, parade, time, result, prevTime,
          history, historyIndex, isPlaying, currentTime>>

\* A ParadeState as the Simulator's handlers see it: animation.duration, the
\* entities whose groupId is g1, and animation.tracks, a map from owner ids
\* to the owner's stored actions, each [id, type, startTime, duration].
Drawing(duration, grouped, tracks) ==
    [duration |-> duration, grouped |-> grouped, tracks |-> tracks]

NoTracks == [o \in {} |-> <<>>]

\* animation: initialState.animation || { duration: 60, tracks: {} }
DefaultDuration == 60

\* useState([fullInitialState]), useState(0), useState(false), useState(0)
InitSimulator(fullInitialState) ==
    /\ history = <<fullInitialState>>
    /\ historyIndex = 0
    /\ isPlaying = FALSE
    /\ currentTime = 0

\* The base state of a scenario, not yet evaluated.
InitEngine(scn, state) ==
    /\ scenario = scn
    /\ heap = MkHeap(scn)
    /\ parade = state
    /\ time = NaN
    /\ result = [entities |-> 0, groups |-> 0]
    /\ prevTime = NaN

InitWithState(scn, state) ==
    /\ InitEngine(scn, state)
    /\ InitSimulator(Drawing(DefaultDuration, {}, NoTracks))

InitWith(scn) == InitWithState(scn, BaseState)

\* The heap without the objects of the previous snapshot, which the caller
\* has let go of: the base state's objects are the first of every store.
Release(h, scn) ==
    LET b == MkHeap(scn)
    IN  [arr |-> SubSeq(h.arr, 1, Len(b.arr)), ent |-> SubSeq(h.ent, 1, Len(b.ent)),
         cfg |-> SubSeq(h.cfg, 1, Len(b.cfg)), map |-> SubSeq(h.map, 1, Len(b.map)),
         grp |-> SubSeq(h.grp, 1, Len(b.grp)), gcfg |-> SubSeq(h.gcfg, 1, Len(b.gcfg)),
         acts |-> SubSeq(h.acts, 1, Len(b.acts))]

\* const snapshot = getParadeStateAtTime(parade, t)
Evaluate(t) ==
    \E r \in {getParadeStateAtTime(Release(heap, scenario), parade, t)} :
        /\ heap' = r.heap
        /\ result' = [entities |-> r.entities, groups |-> r.groups]
        /\ time' = t
        /\ UNCHANGED <<scenario, parade, history, historyIndex, isPlaying, currentTime>>

Next == \E t \in Times : Evaluate(t) /\ UNCHANGED prevTime

\* Entity track evaluation: e1 has a track, the group's track is empty.
Init ==
    \E e1 \in EntityBases, tr \in Tracks(EntityActions) :
        InitWith(Scenario(e1, GroupBase, tr, <<>>))

Spec == Init /\ [][Next]_vars

\* Group track evaluation: g1 has a track, the entity's track is empty.
InitGroup ==
    \E tr \in Tracks(GroupActions) :
        InitWith(Scenario(Pose(I(0), I(0), I(0)), GroupBase, <<>>, tr))

SpecGroup == InitGroup /\ [][Next]_vars

\* Both of the above.
SpecAll == (Init \/ InitGroup) /\ [][Next]_vars

\* Sequences of calls: both tracks are present, and the time of the call
\* before the last is remembered.
CallEntityActions ==
    {Turn(0, I(0)), Move(2, P(2, 2), "DIRECT", "", <<>>, "")}

CallGroupActions ==
    {Move(0, P(3, 1), "ORTHOGONAL", "X_THEN_Y", <<>>, ""), Wheel(2, 2, I(180), "CENTER")}

InitCalls ==
    \E et \in Tracks(CallEntityActions), gt \in Tracks(CallGroupActions) :
        InitWith(Scenario(Pose(I(1), I(1), I(90)), GroupBase, et, gt))

NextCalls == \E t \in Times : Evaluate(t) /\ prevTime' = time

SpecCalls == InitCalls /\ [][NextCalls]_vars

\* ------------------------------------------------------------------------
\* Observations
\* ------------------------------------------------------------------------

\* An entity object with its nested config by value (0 when absent).
EntityValue(h, e) ==
    [h.ent[e] EXCEPT !.config = IF @ = 0 THEN 0 ELSE h.cfg[@]]

\* A group object with its nested config by value.
GroupValue(h, g) ==
    [h.grp[g] EXCEPT !.config = IF @ = 0 THEN 0 ELSE h.gcfg[@]]

\* A { entities, groups } pair by value: what structural equality compares.
Structure(h, r) ==
    [entities |-> [i \in 1..Len(h.arr[r.entities]) |-> EntityValue(h, h.arr[r.entities][i])],
     groups |-> [id \in DOMAIN h.map[r.groups] |-> GroupValue(h, h.map[r.groups][id])]]

\* The value getParadeStateAtTime returns for a pristine scenario at time t.
Evaluation(scn, t) ==
    LET r == getParadeStateAtTime(MkHeap(scn), BaseState, t)
    IN  Structure(r.heap, r)

Called == result.entities # 0

\* The pose of entity i (1 is e1, 2.. are the members) in the last snapshot.
Out(i) == EntityValue(heap, heap.arr[result.entities][i])

\* The base state is as it was drawn: no object of it has changed.
BaseIntact == Release(heap, scenario) = MkHeap(scenario) /\ parade = BaseState

\* The pose a base pose is copied to: non-finite components become 0.
Sanitised(pose) ==
    [x |-> IF NumberIsFinite(pose.x) THEN pose.x ELSE I(0),
     y |-> IF NumberIsFinite(pose.y) THEN pose.y ELSE I(0),
     rot |-> IF NumberIsFinite(pose.rot) THEN pose.rot ELSE I(0)]

\* The base pose of entity i of the scenario.
BasePose(i) == IF i = 1 THEN scenario.e1 ELSE scenario.members[i - 1]

NEntities == 1 + Len(scenario.members)

\* The stored track that entity i is subject to: its own (e1) or its group's.
TrackOf(i) == IF i = 1 THEN scenario.etrack ELSE scenario.gtrack

PoseOf(v) == [x |-> v.x, y |-> v.y, rot |-> v.rotation]

\* ------------------------------------------------------------------------
\* C1  Determinism and history independence
\* ------------------------------------------------------------------------

\* C1: whatever calls came before (any times, in any order), the snapshot a
\* call returns is structurally equal to the one the function gives for the
\* base state as it was drawn and the time of the call.
C1_Deterministic ==
    Called => Structure(heap, result) = Evaluation(scenario, time)

\* A call at t = 1 that follows a call at the later time t = 3 (a backward
\* seek), with e1 and the group both moved by their tracks.
C1_Witness ==
    /\ Called
    /\ prevTime = I(3)
    /\ time = I(1)
    /\ PoseOf(Out(1)) # Sanitised(BasePose(1))
    /\ PoseOf(Out(2)) # Sanitised(BasePose(2))

\* ------------------------------------------------------------------------
\* C2  The input is never mutated
\* ------------------------------------------------------------------------

\* C2: after any sequence of calls every object of the base state (entity
\* array, entities, their configs, groups map, groups, their configs, and
\* every track's action list, contents and order) is as it was drawn.
C2_InputUnchanged == BaseIntact

\* Two calls have been made, the second moved e1 and the members of g1, and
\* both action lists are stored out of start-time order.
C2_Witness ==
    /\ Called
    /\ prevTime # NaN
    /\ PoseOf(Out(1)) # Sanitised(BasePose(1))
    /\ PoseOf(Out(3)) # Sanitised(BasePose(3))
    /\ Len(scenario.etrack) = 2
    /\ RLt(scenario.etrack[2].startTime, scenario.etrack[1].startTime)
    /\ Len(scenario.gtrack) = 2
    /\ RLt(scenario.gtrack[2].startTime, scenario.gtrack[1].startTime)

\* ------------------------------------------------------------------------
\* C3  The snapshot shares no object with the input
\* ------------------------------------------------------------------------

\* The objects reachable from a { entities, groups } pair, store by store.
Reachable(h, r) ==
    LET ents == {h.arr[r.entities][i] : i \in 1..Len(h.arr[r.entities])}
        grps == {h.map[r.groups][id] : id \in DOMAIN h.map[r.groups]}
    IN  [arr |-> {r.entities},
         ent |-> ents,
         cfg |-> {h.ent[e].config : e \in ents} \ {0},
         map |-> {r.groups},
         grp |-> grps,
         gcfg |-> {h.grp[g].config : g \in grps} \ {0}]

\* C3: the entities array, every entity object and its nested config, the
\* groups map, every group object and its nested config of the snapshot are
\* objects the base state does not reach.
C3_NoSharedObject ==
    Called =>
        LET out == Reachable(heap, result)
            in == Reachable(heap, parade)
        IN  \A store \in DOMAIN out : out[store] \cap in[store] = {}

\* ------------------------------------------------------------------------
\* C4  Zero-time identity
\* ------------------------------------------------------------------------

\* Entity i is the subject of an action that starts at exactly 0.
StartsAtZero(i) ==
    \E k \in 1..Len(TrackOf(i)) : TrackOf(i)[k].startTime = I(0)

\* C4 as stated: at t = 0 an entity that is not the subject of an action
\* starting at 0 has the x, y and rotation (and every other field) of the
\* base entity.
C4_ZeroTimeIdentity ==
    (Called /\ time = I(0)) =>
        \A i \in 1..NEntities :
            ~StartsAtZero(i) =>
                Out(i) = EntityValue(MkHeap(scenario), i)

\* C4 as amended: ... has the x, y and rotation of the base entity with each
\* non-finite one replaced by 0, and every other field of the base entity.
C4_ZeroTimeSanitised ==
    (Called /\ time = I(0)) =>
        \A i \in 1..NEntities :
            ~StartsAtZero(i) =>
                /\ PoseOf(Out(i)) = Sanitised(BasePose(i))
                /\ [Out(i) EXCEPT !.x = 0, !.y = 0, !.rotation = 0]
                     = [EntityValue(MkHeap(scenario), i) EXCEPT !.x = 0, !.y = 0, !.rotation = 0]

\* A call at t = 0 on a base state whose e1 has a non-finite x and rotation
\* and a track of two actions, both starting later than 0.
C4_Witness ==
    /\ Called
    /\ time = I(0)
    /\ ~NumberIsFinite(scenario.e1.x)
    /\ Len(scenario.etrack) = 2
    /\ ~StartsAtZero(1)

\* ------------------------------------------------------------------------
\* Entity tracks: the running state an action starts from
\* ------------------------------------------------------------------------

\* The actions of e1's track in start-time order.
ETrack == SortByStart(scenario.etrack)

EndTime(action) == RAdd(action.startTime, ClampDuration(action))

\* The pose of e1 at time t in a scenario.
PoseAt(scn, t) == PoseOf(Evaluation(scn, t).entities[1])

\* The last action of e1's track has begun, and the action before it (if
\* there is one) ended no later than the last one starts.
LastActionRunning ==
    /\ Called
    /\ Len(ETrack) >= 1
    /\ RLe(ETrack[Len(ETrack)].startTime, time)
    /\ Len(ETrack) = 2 => RLe(EndTime(ETrack[1]), ETrack[2].startTime)

LastAction == ETrack[Len(ETrack)]

\* Where e1 stands when the last action of its track starts: the pose the
\* actions before it give at that time.
StartPose ==
    PoseAt([scenario EXCEPT !.etrack = SubSeq(ETrack, 1, Len(ETrack) - 1)],
           LastAction.startTime)

\* The track of e1 holds an orthogonal MOVE along one axis that has ended
\* before the last action starts.
AfterSingleAxisMove ==
    /\ Len(ETrack) = 2
    /\ ETrack[1].type = "MOVE"
    /\ ETrack[1].waypoint = <<>>
    /\ ETrack[1].movePathMode # "DIRECT"
    /\ \/ ETrack[1].targetX = Sanitised(BasePose(1)).x
       \/ ETrack[1].targetY = Sanitised(BasePose(1)).y

\* ------------------------------------------------------------------------
\* C5  Continuity across consecutive actions
\* ------------------------------------------------------------------------

\* A2 of the track <<A1, A2>> starts exactly when A1 ends.
BackToBack == Len(ETrack) = 2 /\ EndTime(ETrack[1]) = ETrack[2].startTime

\* C5: when A2 starts exactly when A1 ends, the pose at the start time of A2
\* is the pose A1 alone produces at its end, and at every later time the
\* pose is the one A2 alone produces from that pose.
C5_Continuity ==
    (Called /\ BackToBack /\ RLe(ETrack[2].startTime, time)) =>
        /\ time = ETrack[2].startTime => PoseOf(Out(1)) = StartPose
        /\ PoseOf(Out(1))
             = PoseAt([scenario EXCEPT !.e1 = StartPose, !.etrack = <<ETrack[2]>>], time)

\* ------------------------------------------------------------------------
\* C6  DIRECT move is linear
\* ------------------------------------------------------------------------

IsDirect(action) ==
    action.type = "MOVE" /\ action.waypoint = <<>> /\ action.movePathMode = "DIRECT"

\* C6: during and after a DIRECT MOVE without a waypoint, e1 is at
\* start + p * (target - start) on both axes, p the clamped progress.
C6_DirectLinear ==
    (LastActionRunning /\ IsDirect(LastAction)) =>
        LET p == Progress(LastAction, time)
            along(from, to) == RAdd(from, RMul(p, RSub(to, from)))
        IN  /\ Out(1).x = along(StartPose.x, LastAction.targetX)
            /\ Out(1).y = along(StartPose.y, LastAction.targetY)

\* ------------------------------------------------------------------------
\* C7  ORTHOGONAL move follows an L-shaped path
\* ------------------------------------------------------------------------

IsXThenY(action) ==
    /\ action.type = "MOVE"
    /\ action.waypoint = <<>>
    /\ action.movePathMode # "DIRECT"
    /\ action.orthogonalOrder # "Y_THEN_X"

\* C7: an orthogonal X_THEN_Y MOVE with fracX = |dx| / (|dx| + |dy|) keeps
\* y at its start value while progress is below fracX, keeps x at the target
\* value from then on, and is at the corner (targetX, startY) when progress
\* equals fracX.
C7_OrthogonalCorner ==
    (LastActionRunning /\ IsXThenY(LastAction)) =>
        LET p == Progress(LastAction, time)
            dx == MathAbs(RSub(LastAction.targetX, StartPose.x))
            dy == MathAbs(RSub(LastAction.targetY, StartPose.y))
            fracX == RDiv(dx, RAdd(dx, dy))
        IN  RLt(Epsilon, RAdd(dx, dy)) =>
                /\ RLt(p, fracX) => Out(1).y = StartPose.y
                /\ RLe(fracX, p) => Out(1).x = LastAction.targetX
                /\ p = fracX => /\ Out(1).x = LastAction.targetX
                                /\ Out(1).y = StartPose.y

\* ------------------------------------------------------------------------
\* C8  Waypoint move splits time by segment length
\* ------------------------------------------------------------------------

\* Point (x, y) lies on the segment from (ax, ay) to (bx, by).
OnSegment(x, y, ax, ay, bx, by) ==
    LET ux == RSub(bx, ax)
        uy == RSub(by, ay)
        vx == RSub(x, ax)
        vy == RSub(y, ay)
        dot == RAdd(RMul(ux, vx), RMul(uy, vy))
    IN  /\ RMul(ux, vy) = RMul(uy, vx)
        /\ RLe(I(0), dot)
        /\ RLe(dot, RAdd(Sq(ux), Sq(uy)))

\* C8: a MOVE with a waypoint w, whatever its movePathMode, is on the
\* segment start-w while progress is at most split = d1 / (d1 + d2), on the
\* segment w-target after that, and at w when progress equals split.
C8_WaypointSplit ==
    (LastActionRunning /\ LastAction.type = "MOVE" /\ LastAction.waypoint # <<>>) =>
        LET p == Progress(LastAction, time)
            wx == LastAction.waypoint[1]
            wy == LastAction.waypoint[2]
            tx == LastAction.targetX
            ty == LastAction.targetY
            d1 == Dist(StartPose.x, StartPose.y, wx, wy)
            d2 == Dist(wx, wy, tx, ty)
            split == RDiv(d1, RAdd(d1, d2))
        IN  /\ RLe(p, split) => OnSegment(Out(1).x, Out(1).y, StartPose.x, StartPose.y, wx, wy)
            /\ RLt(split, p) => OnSegment(Out(1).x, Out(1).y, wx, wy, tx, ty)
            /\ p = split => Out(1).x = wx /\ Out(1).y = wy

\* ------------------------------------------------------------------------
\* Group tracks: the running state an action starts from
\* ------------------------------------------------------------------------

\* The actions of g1's track in start-time order.
GTrack == SortByStart(scenario.gtrack)

GLastAction == GTrack[Len(GTrack)]

\* The last action of g1's track has begun.
GLastActionRunning ==
    Called /\ Len(GTrack) >= 1 /\ RLe(GLastAction.startTime, time)

MemberIndices == 2..NEntities

\* The running state the last action of g1's track starts from at the time
\* of the call: what the actions before it give at that time.
GStart(i) ==
    PoseOf(Evaluation([scenario EXCEPT !.gtrack = SubSeq(GTrack, 1, Len(GTrack) - 1)],
                      time).entities[i])

DistSq(a, b) == RAdd(Sq(RSub(a.x, b.x)), Sq(RSub(a.y, b.y)))

\* ------------------------------------------------------------------------
\* C9  Group WHEEL is rigid
\* ------------------------------------------------------------------------

\* C9: during and after a group WHEEL the distance between any two members
\* is their distance at the start of the action, and every member's
\* rotation is its rotation at the start plus wheelAngle * progress
\* (wheelAngle being 90 when the payload gives none).
C9_RigidWheel ==
    (GLastActionRunning /\ GLastAction.type = "WHEEL") =>
        LET p == Progress(GLastAction, time)
            given == GLastAction.wheelAngle
            wheelAngle == IF NumberIsFinite(given) THEN given ELSE I(90)
        IN  /\ \A i, j \in MemberIndices :
                   DistSq(PoseOf(Out(i)), PoseOf(Out(j))) = DistSq(GStart(i), GStart(j))
            /\ \A i \in MemberIndices :
                   Out(i).rotation = RAdd(GStart(i).rot, RMul(wheelAngle, p))

\* ------------------------------------------------------------------------
\* C10  Group MOVE is a rigid translation
\* ------------------------------------------------------------------------

\* C10: during and after a group MOVE, in every path mode and for every
\* anchor, the differences of the x and of the y coordinates of any two
\* members are those at the start of the action, every member has moved by
\* the same (deltaX, deltaY), and every member's rotation is unchanged.
C10_RigidTranslation ==
    (GLastActionRunning /\ GLastAction.type = "MOVE") =>
        /\ \A i, j \in MemberIndices :
               /\ RSub(Out(i).x, Out(j).x) = RSub(GStart(i).x, GStart(j).x)
               /\ RSub(Out(i).y, Out(j).y) = RSub(GStart(i).y, GStart(j).y)
               /\ RSub(Out(i).x, GStart(i).x) = RSub(Out(j).x, GStart(j).x)
               /\ RSub(Out(i).y, GStart(i).y) = RSub(Out(j).y, GStart(j).y)
        /\ \A i \in MemberIndices : Out(i).rotation = GStart(i).rot

\* A group MOVE half way through (progress 1/2), after a completed WHEEL
\* that turned the formation, with the members displaced on both axes.
C10_Witness ==
    /\ GLastActionRunning
    /\ Len(GTrack) = 2
    /\ GTrack[1].type = "WHEEL"
    /\ GLastAction.type = "MOVE"
    /\ Progress(GLastAction, time) = Q(1, 2)
    /\ GStart(2) # Sanitised(BasePose(2))
    /\ Out(2).x # GStart(2).x
    /\ Out(2).y # GStart(2).y

\* ------------------------------------------------------------------------
\* Edge-case inputs: malformed payloads, non-positive durations, corrupt
\* base coordinates, a group without members, a track whose owner is gone
\* ------------------------------------------------------------------------

WithDuration(action, duration) == [action EXCEPT !.duration = duration]

\* The actions of the entity track: one well-formed move and turn, moves
\* with a missing or non-finite target or waypoint, turns and wheels with a
\* missing or non-finite angle, and actions of duration 0 and -1.
EdgeEntityActions ==
    {Move(0, P(2, 2), "DIRECT", "", <<>>, ""),
     Turn(0, I(0)),
     Move(0, <<NaN, I(1)>>, "ORTHOGONAL", "Y_THEN_X", <<>>, ""),
     Move(2, <<NaN, I(1)>>, "ORTHOGONAL", "Y_THEN_X", <<>>, ""),
     Move(2, <<I(2), PInf>>, "", "", <<>>, ""),
     Move(2, <<Undef, I(1)>>, "DIRECT", "", <<>>, ""),
     Move(2, P(1, 1), "", "", <<NaN, NInf>>, ""),
     Turn(2, Undef),
     Turn(2, NInf),
     Wheel(0, 2, PInf, ""),
     Wheel(2, 2, NaN, ""),
     WithDuration(Move(0, P(2, 2), "DIRECT", "", <<>>, ""), I(0)),
     WithDuration(Move(2, P(2, 1), "", "", <<>>, ""), I(-1)),
     WithDuration(Turn(2, I(0)), I(0))}

\* The actions of the group track, of the same kinds.
EdgeGroupActions ==
    {Move(0, P(3, 1), "ORTHOGONAL", "X_THEN_Y", <<>>, ""),
     Turn(0, I(90)),
     Move(0, <<NaN, I(2)>>, "DIRECT", "", <<>>, "BR"),
     Move(2, <<NaN, I(2)>>, "DIRECT", "", <<>>, "BR"),
     Move(2, <<Undef, Undef>>, "", "", <<PInf, I(1)>>, "C"),
     Turn(2, NaN),
     Wheel(0, 2, PInf, "CENTER"),
     WithDuration(Wheel(2, 1, I(90), "TR"), I(0)),
     WithDuration(Move(2, P(2, 2), "DIRECT", "", <<>>, "TL"), I(-1))}

\* The base poses of e1: a sound one and a corrupt one.
EdgeEntityBases == {Pose(I(1), I(1), I(90)), Pose(NaN, I(1), PInf)}

\* The members of g1: the formation, no member at all, corrupt members.
EdgeGroupBases ==
    {GroupBase, <<>>, <<Pose(NaN, I(0), I(0)), Pose(I(2), PInf, NaN)>>}

\* The stored action list of the track of "ghost", an owner that is neither
\* an entity nor a group of the base state.
GhostTrack == <<Move(0, P(2, 2), "DIRECT", "", <<>>, ""), Turn(0, I(0))>>

\* The ParadeState whose tracks are, in key order, those of ghost, e1, g1.
GhostState ==
    [entities |-> 1, groups |-> 1,
     tracks |-> <<[ownerId |-> "ghost", actions |-> 3],
                  [ownerId |-> "e1", actions |-> 1],
                  [ownerId |-> "g1", actions |-> 2]>>]

EdgeScenario(e1, members, etrack, gtrack) ==
    [e1 |-> e1, members |-> members, etrack |-> etrack, gtrack |-> gtrack,
     xtrack |-> GhostTrack]

InitEdge ==
    \E state \in {BaseState, GhostState} :
        \/ \E e1 \in EdgeEntityBases, tr \in Tracks(EdgeEntityActions) :
               InitWithState(EdgeScenario(e1, GroupBase, tr, <<>>), state)
        \/ \E members \in EdgeGroupBases, tr \in Tracks(EdgeGroupActions) :
               InitWithState(EdgeScenario(Pose(I(1), I(1), I(90)), members, <<>>, tr), state)

SpecEdge == InitEdge /\ [][Next]_vars

\* ------------------------------------------------------------------------
\* C11  Malformed payload values default to the action's start value
\* ------------------------------------------------------------------------

\* C11: a MOVE (without a waypoint) whose targetX is missing or non-finite
\* keeps x at its value at the start of the action at every time, and so for
\* targetY and y; the axis whose target is finite has arrived at it once the
\* move is complete; a TURN whose targetRotation is missing or non-finite
\* leaves the rotation at its value at the start of the action.
C11_MalformedDefaults ==
    LastActionRunning =>
        /\ (LastAction.type = "MOVE" /\ LastAction.waypoint = <<>>) =>
               /\ ~NumberIsFinite(LastAction.targetX) => Out(1).x = StartPose.x
               /\ ~NumberIsFinite(LastAction.targetY) => Out(1).y = StartPose.y
               /\ (NumberIsFinite(LastAction.targetY) /\ RLe(EndTime(LastAction), time))
                      => Out(1).y = LastAction.targetY
               /\ (NumberIsFinite(LastAction.targetX) /\ RLe(EndTime(LastAction), time))
                      => Out(1).x = LastAction.targetX
        /\ (LastAction.type = "TURN" /\ ~NumberIsFinite(LastAction.targetRotation)) =>
               Out(1).rotation = StartPose.rot

\* ------------------------------------------------------------------------
\* C12  No non-finite number reaches the output
\* ------------------------------------------------------------------------

\* C12: whatever the base coordinates, the payloads and the time, every
\* entity of the snapshot has a finite x, a finite y and a finite rotation.
C12_FiniteOutput ==
    Called =>
        \A i \in 1..NEntities :
            /\ NumberIsFinite(Out(i).x)
            /\ NumberIsFinite(Out(i).y)
            /\ NumberIsFinite(Out(i).rotation)

\* e1 has a non-finite base x and rotation, and both actions of its track
\* have been applied: a wheel by an infinite angle and a move whose targetY
\* is infinite.
C12_Witness ==
    /\ Called
    /\ time = I(4)
    /\ ~NumberIsFinite(scenario.e1.x)
    /\ Len(ETrack) = 2
    /\ ETrack[1].type = "WHEEL"
    /\ ETrack[1].wheelAngle = PInf
    /\ ETrack[2].type = "MOVE"
    /\ ETrack[2].targetY = PInf

\* ------------------------------------------------------------------------
\* C13  Dangling and empty tracks are skipped
\* ------------------------------------------------------------------------

\* The value getParadeStateAtTime returns at time t for a pristine scenario
\* held as the given ParadeState.
EvaluationIn(scn, state, t) ==
    LET r == getParadeStateAtTime(MkHeap(scn), state, t)
    IN  Structure(r.heap, r)

\* The track's owner id is the id of no entity and of no group.
IsDangling(track) ==
    LET h == MkHeap(scenario)
    IN  /\ \A i \in 1..Len(h.ent) : h.ent[i].id # track.ownerId
        /\ track.ownerId \notin DOMAIN h.map[parade.groups]

\* The track has zero actions.
IsEmptyTrack(track) == Len(MkHeap(scenario).acts[track.actions]) = 0

\* The caller's ParadeState with its dangling and its empty tracks removed.
WithoutSkipped ==
    [parade EXCEPT !.tracks =
        SelectSeq(@, LAMBDA track : ~IsDangling(track) /\ ~IsEmptyTrack(track))]

\* C13: the snapshot is the one the function returns for the same base
\* state with every dangling track and every track of zero actions removed
\* (the other tracks are evaluated as they would be without them).
C13_SkippedTracks ==
    Called => Structure(heap, result) = EvaluationIn(scenario, WithoutSkipped, time)

\* The base state holds a dangling track whose actions have started, ahead
\* of e1's track, which has moved e1, and of g1's track, which is empty.
C13_Witness ==
    /\ Called
    /\ time = I(1)
    /\ \E k \in 1..Len(parade.tracks) :
           /\ IsDangling(parade.tracks[k])
           /\ ~IsEmptyTrack(parade.tracks[k])
    /\ \E k \in 1..Len(parade.tracks) : IsEmptyTrack(parade.tracks[k])
    /\ Len(WithoutSkipped.tracks) = 1
    /\ PoseOf(Out(1)) # Sanitised(BasePose(1))

\* ------------------------------------------------------------------------
\* C14  The evaluation is total and bounded
\* ------------------------------------------------------------------------

\* The snapshot is complete: one entity per base entity, in the same order
\* and with the same id and groupId, each with numbers for x, y and
\* rotation, and one group per base group.
CompleteSnapshot ==
    LET base == MkHeap(scenario)
    IN  /\ Len(heap.arr[result.entities]) = Len(base.arr[parade.entities])
        /\ \A i \in 1..Len(base.arr[parade.entities]) :
               /\ Out(i).id = base.ent[base.arr[parade.entities][i]].id
               /\ Out(i).groupId = base.ent[base.arr[parade.entities][i]].groupId
               /\ Out(i).x[2] >= 0
               /\ Out(i).y[2] >= 0
               /\ Out(i).rotation[2] >= 0
        /\ DOMAIN heap.map[result.groups] = DOMAIN base.map[parade.groups]

RemoveAt(seq, k) == SubSeq(seq, 1, k - 1) \o SubSeq(seq, k + 1, Len(seq))

\* The scenario with the k-th stored action of a track removed, or given
\* another duration.
Without(field, k) ==
    [scenario EXCEPT ![field] = RemoveAt(scenario[field], k)]

Lasting(field, k, duration) ==
    [scenario EXCEPT ![field] = [scenario[field] EXCEPT ![k] = WithDuration(scenario[field][k], duration)]]

TrackFields == {"etrack", "gtrack"}

NonPositive(action) == RLe(action.duration, I(0))

\* C15: an action of duration <= 0, alone on its track, has no effect
\* before its startTime and its full effect (that of the same action with
\* duration 1, one second later) at every t >= startTime.
C15_InstantJump ==
    Called =>
        \A field \in TrackFields :
            (Len(scenario[field]) = 1 /\ NonPositive(scenario[field][1])) =>
                IF RLt(time, scenario[field][1].startTime)
                THEN Structure(heap, result) = EvaluationIn(Without(field, 1), parade, time)
                ELSE Structure(heap, result) =
                         EvaluationIn(Lasting(field, 1, I(1)), parade, RAdd(time, I(1)))

\* C15 as the code has it: an action of duration <= 0 has no effect before
\* its startTime, is applied at progress 0 at t = startTime (as an action
\* of duration 2 is), and is applied at progress 1 from startTime + 0.001
\* on (as an action of duration 1 is from startTime + 1 on).
C15_ClampedJump ==
    Called =>
        \A field \in TrackFields :
            \A k \in 1..Len(scenario[field]) :
                NonPositive(scenario[field][k]) =>
                    /\ RLt(time, scenario[field][k].startTime) =>
                           Structure(heap, result) = EvaluationIn(Without(field, k), parade, time)
                    /\ time = scenario[field][k].startTime =>
                           Structure(heap, result) = EvaluationIn(Lasting(field, k, I(2)), parade, time)
                    /\ RLe(RAdd(scenario[field][k].startTime, Epsilon), time) =>
                           Structure(heap, result) = EvaluationIn(Lasting(field, k, I(1)), parade, time)

\* A call at the startTime of a zero-duration MOVE to (2, 2) that leaves e1
\* at its base position (1, 1).
C15_Witness ==
    /\ Called
    /\ scenario.etrack = <<WithDuration(Move(0, P(2, 2), "DIRECT", "", <<>>, ""), I(0))>>
    /\ time = I(0)
    /\ Out(1).x = I(1)
    /\ Out(1).y = I(1)

\* ------------------------------------------------------------------------
\* C16  A completed entity MOVE arrives at its target
\* ------------------------------------------------------------------------

\* The last action of e1's track is over at the time of the call.
LastActionOver == LastActionRunning /\ RLe(EndTime(LastAction), time)

\* C16: once a MOVE of e1 is over (and no later action has begun), e1 is
\* exactly at (targetX, targetY), whatever the path mode and whatever
\* actions were completed before it.
C16_MoveArrives ==
    (LastActionOver /\ LastAction.type = "MOVE") =>
        /\ Out(1).x = LastAction.targetX
        /\ Out(1).y = LastAction.targetY

\* ------------------------------------------------------------------------
\* C17  A completed group MOVE puts the anchor on its target
\* ------------------------------------------------------------------------

\* The member state the last action of g1's track starts from.
GStartMembers == [k \in 1..(NEntities - 1) |-> GStart(k + 1)]

\* C17: once a group MOVE is over, every member has been translated by
\* target - anchor, the anchor being the point of the members' bounding box
\* at the start of the action that the anchor code (TL when absent) names.
C17_AnchorArrives ==
    (GLastActionRunning /\ GLastAction.type = "MOVE" /\ Progress(GLastAction, time) = I(1)) =>
        LET anchor == StartAnchor(MoveBox(GStartMembers), GLastAction.groupAnchor)
        IN  \A i \in MemberIndices :
                /\ Out(i).x = RAdd(GStart(i).x, RSub(GLastAction.targetX, anchor[1]))
                /\ Out(i).y = RAdd(GStart(i).y, RSub(GLastAction.targetY, anchor[2]))

\* ------------------------------------------------------------------------
\* C18  Where the walk over a track's actions ends
\* ------------------------------------------------------------------------

\* The first of e1's two actions is still in progress at the time of the
\* call, and the second has started too.
Overlapping ==
    /\ Called
    /\ Len(ETrack) = 2
    /\ RLe(ETrack[2].startTime, time)
    /\ RLt(Progress(ETrack[1], time), I(1))

\* The pose of e1 at time t when its track holds the given actions only.
PoseWith(actions, t) == PoseAt([scenario EXCEPT !.etrack = actions], t)

\* C18: when the first action of the sorted track is still in progress, the
\* second one is not applied although it has started: the pose is the one
\* the first action alone gives.
C18_EarlyTermination ==
    Overlapping => PoseOf(Out(1)) = PoseWith(<<ETrack[1]>>, time)

\* C18 as the code has it: the walk ends only at the first action whose
\* startTime is later than t.  A second action that has started is applied
\* to the pose the first one, still in progress, has reached; a second
\* action that has not started is not applied.
C18_WalkToFirstUnstarted ==
    (Called /\ Len(ETrack) = 2) =>
        /\ Overlapping =>
               PoseOf(Out(1))
                 = PoseAt([scenario EXCEPT !.e1 = PoseWith(<<ETrack[1]>>, time),
                                           !.etrack = <<ETrack[2]>>], time)
        /\ RLt(time, ETrack[2].startTime) =>
               PoseOf(Out(1)) = PoseWith(<<ETrack[1]>>, time)

\* A call at t = 1 with a TURN and a MOVE that both started at 0 and are
\* both half way through: the MOVE, second in the track, has moved e1.
C18_Witness ==
    /\ Overlapping
    /\ time = I(1)
    /\ ETrack[1].type = "TURN"
    /\ ETrack[2].type = "MOVE"
    /\ Progress(ETrack[2], time) = Q(1, 2)
    /\ PoseOf(Out(1)) # PoseWith(<<ETrack[1]>>, time)

\* ------------------------------------------------------------------------
\* C19  Actions are applied in ascending order of startTime
\* ------------------------------------------------------------------------

\* Of the two stored actions of e1's track, the one that is to be applied
\* first: the one with the smaller startTime, the first stored one on a tie.
Earlier ==
    IF RLt(scenario.etrack[2].startTime, scenario.etrack[1].startTime)
    THEN scenario.etrack[2] ELSE scenario.etrack[1]

Later ==
    IF RLt(scenario.etrack[2].startTime, scenario.etrack[1].startTime)
    THEN scenario.etrack[1] ELSE scenario.etrack[2]

\* The pose written back from a final running state: a component that is
\* not finite leaves the copied base component as it is.
Settled(final) == PoseOf(WriteBack(Entity("e1", Sanitised(scenario.e1).x, Sanitised(scenario.e1).y,
                                          Sanitised(scenario.e1).rot, "", 1), final))

\* The pose that results from applying the loop body for action `first`
\* and then for action `second`, at time t, to the copied base pose of e1.
OneThenOther(first, second, t) ==
    Settled(EntityStep(second, t, EntityStep(first, t, Sanitised(scenario.e1))))

\* C19: for a track of two stored actions, (1) the result is the one the
\* track gives with the two actions stored the other way round unless they
\* start at the same time, and (2) the actions that have started are
\* applied earlier one first, on a tie the first stored one first, so that
\* the later one acts on what the earlier one has left.
C19_AscendingStartOrder ==
    (Called /\ Len(scenario.etrack) = 2) =>
        /\ scenario.etrack[1].startTime # scenario.etrack[2].startTime =>
               Structure(heap, result)
                 = Evaluation([scenario EXCEPT !.etrack = <<scenario.etrack[2], scenario.etrack[1]>>],
                              time)
        /\ RLe(Later.startTime, time) =>
               PoseOf(Out(1)) = OneThenOther(Earlier, Later, time)
        /\ (RLe(Earlier.startTime, time) /\ RLt(time, Later.startTime)) =>
               PoseOf(Out(1)) = Settled(EntityStep(Earlier, time, Sanitised(scenario.e1)))
        /\ RLt(time, Earlier.startTime) =>
               PoseOf(Out(1)) = Sanitised(scenario.e1)

\* A call after both actions have started, on a track stored with the later
\* action first, where applying the actions in stored order would have given
\* another pose.
C19_Witness ==
    /\ Called
    /\ Len(scenario.etrack) = 2
    /\ RLt(scenario.etrack[2].startTime, scenario.etrack[1].startTime)
    /\ RLe(scenario.etrack[1].startTime, time)
    /\ PoseOf(Out(1)) # OneThenOther(scenario.etrack[1], scenario.etrack[2], time)

\* ------------------------------------------------------------------------
\* C20  Each entity action changes its own components only
\* ------------------------------------------------------------------------

\* The last action of e1's track has started at the time of the call.
LastActionApplied ==
    Called /\ Len(ETrack) >= 1 /\ RLe(LastAction.startTime, time)

\* The pose of e1 before the last action of its track is applied: what the
\* actions before it give at the time of the call.
PoseBefore == PoseWith(SubSeq(ETrack, 1, Len(ETrack) - 1), time)

\* C20: at every progress and after any earlier actions, a MOVE leaves the
\* rotation of e1 as it was before the action, and a TURN or a WHEEL
\* leaves x and y as they were before the action.
C20_FrameEffect ==
    LastActionApplied =>
        /\ LastAction.type = "MOVE" => Out(1).rotation = PoseBefore.rot
        /\ LastAction.type \in {"TURN", "WHEEL"} =>
               /\ Out(1).x = PoseBefore.x
               /\ Out(1).y = PoseBefore.y

\* A TURN half way through, after a MOVE that has taken e1 away from its
\* base position; the TURN has changed the rotation.
C20_Witness ==
    /\ LastActionApplied
    /\ Len(ETrack) = 2
    /\ ETrack[1].type = "MOVE"
    /\ LastAction.type = "TURN"
    /\ Progress(LastAction, time) = Q(1, 2)
    /\ PoseBefore.x # Sanitised(scenario.e1).x
    /\ Out(1).rotation # PoseBefore.rot

\* ------------------------------------------------------------------------
\* Wheel inputs for the entity track: a positive, a negative, a zero and an
\* absent wheelAngle, before or after a TURN
\* ------------------------------------------------------------------------

WheelEntityActions ==
    UNION {
        {Wheel(s, 2, I(90), ""),
         Wheel(s, 2, I(-90), ""),
         Wheel(s, 2, I(0), ""),
         Wheel(s, 2, Undef, ""),
         Turn(s, I(90))}
        : s \in Starts}

InitWheel ==
    \E e1 \in {Pose(I(0), I(0), I(0)), Pose(I(1), I(1), I(90))}, tr \in Tracks(WheelEntityActions) :
        InitWith(Scenario(e1, GroupBase, tr, <<>>))

SpecWheel == InitWheel /\ [][Next]_vars

\* ------------------------------------------------------------------------
\* C21  A single-entity WHEEL accumulates onto the running rotation
\* ------------------------------------------------------------------------

\* C21: during and after a WHEEL of e1, the rotation is the rotation before
\* the action plus wheelAngle * progress, for every finite wheelAngle the
\* payload gives (0 included); 90 stands in for an absent wheelAngle only.
C21_WheelAccumulates ==
    (LastActionApplied /\ LastAction.type = "WHEEL") =>
        LET given == LastAction.wheelAngle
            wheelAngle == IF given = Undef THEN I(90) ELSE given
        IN  Out(1).rotation = RAdd(PoseBefore.rot, RMul(wheelAngle, Progress(LastAction, time)))

\* ------------------------------------------------------------------------
\* The same MOVE on an entity and on a group of one: e1 and the only member
\* of g1 start from the same pose and their tracks hold the same action
\* ------------------------------------------------------------------------

\* Moves from (x, y) in every path mode, along one axis, through a waypoint,
\* of no distance, and of a total distance of no more than 0.001.
PairMoves(x, y) ==
    UNION {
        {Move(s, P(2, 2), "DIRECT", "", <<>>, "TL"),
         Move(s, P(2, 2), "ORTHOGONAL", "X_THEN_Y", <<>>, "TL"),
         Move(s, P(2, 2), "", "Y_THEN_X", <<>>, ""),
         Move(s, <<RAdd(x, I(1)), y>>, "", "", <<>>, "TL"),
         Move(s, P(3, 3), "", "", P(1, 3), "TL"),
         Move(s, <<x, y>>, "", "", <<>>, "TL"),
         Move(s, <<RAdd(x, Q(1, 2000)), y>>, "", "", <<>>, "TL"),
         Move(s, <<x, y>>, "", "", <<RAdd(x, Q(1, 2000)), y>>, "TL")}
        : s \in Starts}

PairBases == {Pose(I(1), I(1), I(0)), Pose(I(1), I(3), I(90))}

InitPair ==
    \E base \in PairBases :
        \E tr \in {<<>>} \cup {<<a>> : a \in PairMoves(base.x, base.y)} :
            InitWith(Scenario(base, <<base>>, tr, tr))

SpecPair == InitPair /\ [][Next]_vars

\* ------------------------------------------------------------------------
\* C22  Group and entity MOVE interpolate alike
\* ------------------------------------------------------------------------

\* e1 and the only member of g1 start from the same pose under equal tracks.
Paired ==
    /\ Called
    /\ scenario.members = <<scenario.e1>>
    /\ scenario.gtrack = scenario.etrack

\* C22: at every t, the only member of a group that moves with anchor TL is
\* where an entity is that moves by the same MOVE from the same start.
C22_SameInterpolation ==
    Paired => (Out(2).x = Out(1).x /\ Out(2).y = Out(1).y)

\* ------------------------------------------------------------------------
\* Anchor inputs for the group track: a DIRECT move to (3, 3) by each of the
\* nine anchor codes and by none, alone or after a move that has displaced
\* the formation
\* ------------------------------------------------------------------------

AnchorCodes == {"TL", "TM", "TR", "CL", "C", "CR", "BL", "BM", "BR"}

AnchorTracks ==
    {<<>>}
    \cup {<<Move(s, P(3, 3), "DIRECT", "", <<>>, code)>> : s \in Starts, code \in AnchorCodes \cup {""}}
    \cup {<<Move(0, P(1, 2), "DIRECT", "", <<>>, "BR"), Move(2, P(3, 3), "DIRECT", "", <<>>, code)>> :
            code \in AnchorCodes \cup {""}}

InitAnchor ==
    \E tr \in AnchorTracks :
        InitWith(Scenario(Pose(I(0), I(0), I(0)), GroupBase, <<>>, tr))

SpecAnchor == InitAnchor /\ [][Next]_vars

\* ------------------------------------------------------------------------
\* C23  Anchor resolution
\* ------------------------------------------------------------------------

\* The least and the greatest of a non-empty set of numbers.
Least(S) == CHOOSE v \in S : \A w \in S : RLe(v, w)
Greatest(S) == CHOOSE v \in S : \A w \in S : RLe(w, v)

\* The point of the bounding box of the poses ms that an anchor code names.
AnchorPoint(ms, code) ==
    LET xs == {ms[i].x : i \in 1..Len(ms)}
        ys == {ms[i].y : i \in 1..Len(ms)}
        minX == Least(xs)
        maxX == Greatest(xs)
        midX == RDiv(RAdd(minX, maxX), I(2))
        minY == Least(ys)
        maxY == Greatest(ys)
        midY == RDiv(RAdd(minY, maxY), I(2))
    IN  CASE code \in {"TL", ""} -> <<minX, minY>>
          [] code = "TM" -> <<midX, minY>>
          [] code = "TR" -> <<maxX, minY>>
          [] code = "CL" -> <<minX, midY>>
          [] code = "C"  -> <<midX, midY>>
          [] code = "CR" -> <<maxX, midY>>
          [] code = "BL" -> <<minX, maxY>>
          [] code = "BM" -> <<midX, maxY>>
          [] code = "BR" -> <<maxX, maxY>>

\* The members of g1 in the last snapshot.
OutMembers == [k \in 1..(NEntities - 1) |-> Out(k + 1)]

\* C23: (1) a group MOVE resolves its anchor code (TL when absent) to the
\* named point of the bounding box the members have when the action starts,
\* so that during and after a DIRECT move every member is displaced by
\* progress * (target - that point); (2) the canvas resolves each of the
\* nine codes to the named point of the members' bounding box.
C23_AnchorResolution ==
    /\ (GLastActionRunning /\ GLastAction.type = "MOVE" /\ IsDirect(GLastAction)) =>
           LET anchor == AnchorPoint(GStartMembers, GLastAction.groupAnchor)
               p == Progress(GLastAction, time)
           IN  /\ StartAnchor(MoveBox(GStartMembers), GLastAction.groupAnchor) = anchor
               /\ \A i \in MemberIndices :
                      /\ Out(i).x = RAdd(GStart(i).x, RMul(p, RSub(GLastAction.targetX, anchor[1])))
                      /\ Out(i).y = RAdd(GStart(i).y, RMul(p, RSub(GLastAction.targetY, anchor[2])))
    /\ Called =>
           \A code \in AnchorCodes \cup {""} :
               getAnchorPos(OutMembers, "g1", code) = AnchorPoint(OutMembers, code)

\* The end of a move by the centre anchor C of a formation that an earlier
\* move has displaced: the centre of the box, (0, 3/2) at the start of the
\* action, is on the target (3, 3).
C23_Witness ==
    /\ GLastActionRunning
    /\ Len(GTrack) = 2
    /\ GLastAction.groupAnchor = "C"
    /\ Progress(GLastAction, time) = I(1)
    /\ AnchorPoint(GStartMembers, "C") = <<I(0), Q(3, 2)>>
    /\ getAnchorPos(OutMembers, "g1", "C") = <<I(3), I(3)>>

\* ------------------------------------------------------------------------
\* C24  A group TURN rotates all headings together
\* ------------------------------------------------------------------------

\* C24: during and after a group TURN, every member's rotation is its
\* rotation at the start of the action plus (targetRotation - the first
\* member's rotation at the start) * progress, so that at progress 1 the
\* first member's rotation is targetRotation and the differences between
\* the members' rotations are kept; no member's x or y changes.
C24_GroupTurn ==
    (GLastActionRunning /\ GLastAction.type = "TURN") =>
        LET p == Progress(GLastAction, time)
            deltaRot == RMul(RSub(GLastAction.targetRotation, GStart(2).rot), p)
        IN  /\ \A i \in MemberIndices :
                   /\ Out(i).rotation = RAdd(GStart(i).rot, deltaRot)
                   /\ Out(i).x = GStart(i).x
                   /\ Out(i).y = GStart(i).y
            /\ p = I(1) => Out(2).rotation = GLastAction.targetRotation
            /\ \A i, j \in MemberIndices :
                   RSub(Out(i).rotation, Out(j).rotation) = RSub(GStart(i).rot, GStart(j).rot)

\* A group TURN half way through, after a completed WHEEL that has turned
\* and displaced the members, whose rotations differ; the TURN has changed
\* the first member's rotation.
C24_Witness ==
    /\ GLastActionRunning
    /\ Len(GTrack) = 2
    /\ GTrack[1].type = "WHEEL"
    /\ GLastAction.type = "TURN"
    /\ Progress(GLastAction, time) = Q(1, 2)
    /\ GStart(2) # Sanitised(BasePose(2))
    /\ GStart(2).rot # GStart(3).rot
    /\ Out(2).rotation # GStart(2).rot

\* ------------------------------------------------------------------------
\* C25  The last-resort guard of the write-back
\* ------------------------------------------------------------------------

\* The running state of e1 before the loop body runs for the last action of
\* its track, and after it.
RunningBefore ==
    EntityWalk(SubSeq(ETrack, 1, Len(ETrack) - 1), time, Sanitised(scenario.e1))

RunningAfter == EntityStep(LastAction, time, RunningBefore)

\* C25: a component that the last action has made non-finite is written
\* back with the value it had before that action was applied.
C25_GuardKeepsPrior ==
    LastActionApplied =>
        /\ (NumberIsFinite(RunningBefore.x) /\ ~NumberIsFinite(RunningAfter.x)) =>
               Out(1).x = RunningBefore.x
        /\ (NumberIsFinite(RunningBefore.y) /\ ~NumberIsFinite(RunningAfter.y)) =>
               Out(1).y = RunningBefore.y
        /\ (NumberIsFinite(RunningBefore.rot) /\ ~NumberIsFinite(RunningAfter.rot)) =>
               Out(1).rotation = RunningBefore.rot

\* ------------------------------------------------------------------------
\* The Simulator: the playback clock
\* ------------------------------------------------------------------------

\* const currentState = history[historyIndex]
currentState == history[historyIndex + 1]

\* The evaluation engine is not called by the handlers modelled below.
EngineAtRest ==
    InitEngine(Scenario(Pose(I(0), I(0), I(0)), GroupBase, <<>>, <<>>), BaseState)

EngineUnchanged == UNCHANGED <<scenario, heap, parade, time, result, prevTime>>

\* onPlay={() => setIsPlaying(true)}
onPlay ==
    /\ isPlaying' = TRUE
    /\ UNCHANGED <<currentTime, history, historyIndex>>
    /\ EngineUnchanged

\* onPause={() => setIsPlaying(false)}
onPause ==
    /\ isPlaying' = FALSE
    /\ UNCHANGED <<currentTime, history, historyIndex>>
    /\ EngineUnchanged

\* The space key: setIsPlaying(prev => !prev)
handleKeySpace ==
    /\ isPlaying' = ~isPlaying
    /\ UNCHANGED <<currentTime, history, historyIndex>>
    /\ EngineUnchanged

\* onStop={() => { setIsPlaying(false); setCurrentTime(0); }}
onStop ==
    /\ isPlaying' = FALSE
    /\ currentTime' = 0
    /\ UNCHANGED <<history, historyIndex>>
    /\ EngineUnchanged

\* onSeek={setCurrentTime}, called by handleRulerClick with
\* Math.max(0, clickX / pixelsPerSecond)
onSeek(t) ==
    /\ currentTime' = t
    /\ UNCHANGED <<isPlaying, history, historyIndex>>
    /\ EngineUnchanged

\* One run of the animation loop, delta seconds after the frame before: the
\* loop is scheduled while isPlaying holds.
loop(delta) ==
    /\ isPlaying
    /\ LET next == currentTime + delta
       IN  IF next >= currentState.duration
           THEN /\ isPlaying' = FALSE
                /\ currentTime' = currentState.duration
           ELSE /\ isPlaying' = TRUE
                /\ currentTime' = next
    /\ UNCHANGED <<history, historyIndex>>
    /\ EngineUnchanged

\* The durations of the animations played, the seconds between two frames,
\* and how far past the end of the animation the ruler is clicked (the
\* ruler is 200 px wider than the animation is long).
MaxDuration == 9
ClockDurations == 3..MaxDuration
Deltas == {1, 2}
SeekBeyond == 2
SeekTimes == 0..(currentState.duration + SeekBeyond)

InitClock ==
    /\ EngineAtRest
    /\ \E d \in ClockDurations : InitSimulator(Drawing(d, {}, NoTracks))

NextClock ==
    \/ onPlay
    \/ onPause
    \/ handleKeySpace
    \/ onStop
    \/ \E t \in SeekTimes : onSeek(t)
    \/ \E delta \in Deltas : loop(delta)

SpecClock == InitClock /\ [][NextClock]_vars

\* ------------------------------------------------------------------------
\* C26  The playback clock
\* ------------------------------------------------------------------------

\* A step of the animation loop.
Frame == \E delta \in Deltas : loop(delta)

\* C26: from every state reachable through play, pause, stop, seek and
\* frames, currentTime does not exceed animation.duration; a frame never
\* decreases currentTime; a frame either leaves currentTime short of
\* animation.duration and isPlaying true, or sets currentTime to
\* animation.duration and isPlaying to false; and no frame runs while
\* isPlaying is false.
C26_PlaybackClock ==
    [][/\ currentTime' <= currentState.duration
       /\ Frame =>
              /\ isPlaying
              /\ currentTime' >= currentTime
              /\ isPlaying' => currentTime' < currentState.duration
              /\ ~isPlaying' => currentTime' = currentState.duration]_vars

\* ------------------------------------------------------------------------
\* The Simulator: the editor's handlers for the timeline
\* A track of a Drawing is [ref, actions]: ref names the actions array, so
\* that two ParadeStates of the history that hold the same array are told
\* from two that hold equal ones.  Payloads are left out: no handler reads
\* one to decide a start time or a duration.
\* ------------------------------------------------------------------------

EditorAction(id, type, startTime, duration) ==
    [id |-> id, type |-> type, startTime |-> startTime, duration |-> duration]

Track(ref, actions) == [ref |-> ref, actions |-> actions]

Greater(a, b) == IF a >= b THEN a ELSE b

RECURSIVE MaxOver(_)
MaxOver(S) ==
    IF S = {} THEN 0
    ELSE LET v == CHOOSE w \in S : TRUE IN Greater(v, MaxOver(S \ {v}))

ActionIds(d) ==
    UNION {{d.tracks[o].actions[i].id : i \in 1..Len(d.tracks[o].actions)} : o \in DOMAIN d.tracks}

Refs(d) == {d.tracks[o].ref : o \in DOMAIN d.tracks}

\* crypto.randomUUID() and a new array: an id and a ref that no ParadeState
\* of the history holds.
FreshId == 1 + MaxOver(UNION {ActionIds(history[k]) : k \in 1..Len(history)})

FreshRef == 1 + MaxOver(UNION {Refs(history[k]) : k \in 1..Len(history)})

\* sA < eB && eA > sB
Overlaps(sA, eA, b) == sA < b.startTime + b.duration /\ eA > b.startTime

\* The undo history is kept to MaxHistory ParadeStates, and the editor
\* makes no more than MaxFresh actions and no more than MaxFresh arrays.
MaxHistory == 3
MaxFresh == 3

CanPush ==
    /\ historyIndex + 2 <= MaxHistory
    /\ FreshId <= MaxFresh
    /\ FreshRef <= MaxFresh

\* A bug's version of pushStateOnto: the states after the current one are
\* kept (history is not sliced).
pushStateKeepingRedo(hist, newState) ==
    /\ history' = Append(hist, newState)
    /\ historyIndex' = Len(hist)

\* pushState(newState), on a history whose arrays the handler may have
\* written to
pushStateOnto(hist, newState) ==
    /\ history' = Append(SubSeq(hist, 1, historyIndex + 1), newState)
    /\ historyIndex' = historyIndex + 1

pushState(newState) == pushStateOnto(history, newState)

\* handleStateChange({ animation: { ...currentState.animation, tracks: newTracks } })
handleStateChange(newTracks) ==
    pushState([currentState EXCEPT !.tracks = newTracks])

\* { ...tracks, [ownerId]: track }
WithTrack(tracks, ownerId, track) ==
    [o \in DOMAIN tracks \cup {ownerId} |-> IF o = ownerId THEN track ELSE tracks[o]]

\* sortedActions.find(overlaps): the first overlapping action in ascending
\* order of startTime, in stored order among equal start times; 0 if none.
FindOverlap(actions, startTime, duration) ==
    LET hits == {i \in 1..Len(actions) : Overlaps(startTime, startTime + duration, actions[i])}
    IN  IF hits = {} THEN 0
        ELSE CHOOSE i \in hits :
                 \A j \in hits : \/ actions[i].startTime < actions[j].startTime
                                 \/ actions[i].startTime = actions[j].startTime /\ i <= j

\* while (finding) { ... startTime = overlap.startTime + overlap.duration }
RECURSIVE FindSlot(_, _, _)
FindSlot(actions, startTime, duration) ==
    LET i == FindOverlap(actions, startTime, duration)
    IN  IF i = 0 THEN startTime
        ELSE FindSlot(actions, actions[i].startTime + actions[i].duration, duration)

Owners == {"m1", "m2"} \cup (IF currentState.grouped = {} THEN {} ELSE {"g1"})

handleAddAction(ownerId, type) ==
    /\ CanPush
    /\ LET tracks == currentState.tracks
           actions == IF ownerId \in DOMAIN tracks THEN tracks[ownerId].actions ELSE <<>>
           startTime == FindSlot(actions, currentTime, 2)
           newAction == EditorAction(FreshId, type, startTime, 2)
       IN  handleStateChange(WithTrack(tracks, ownerId, Track(FreshRef, Append(actions, newAction))))
    /\ UNCHANGED <<isPlaying, currentTime>>
    /\ EngineUnchanged

handleDeleteAction(ownerId, actionId) ==
    /\ CanPush
    /\ IF ownerId \notin DOMAIN currentState.tracks
       THEN UNCHANGED <<history, historyIndex>>
       ELSE handleStateChange(
                WithTrack(currentState.tracks, ownerId,
                          Track(FreshRef, SelectSeq(currentState.tracks[ownerId].actions,
                                                    LAMBDA a : a.id # actionId))))
    /\ UNCHANGED <<isPlaying, currentTime>>
    /\ EngineUnchanged

\* updates is [startTime, duration], -1 for a field that is not given.
handleUpdateAction(actionId, updates) ==
    /\ CanPush
    /\ LET tracks == currentState.tracks
           found == {o \in DOMAIN tracks : \E i \in 1..Len(tracks[o].actions) : tracks[o].actions[i].id = actionId}
       IN  IF found = {} THEN UNCHANGED <<history, historyIndex>>
           ELSE LET ownerId == CHOOSE o \in found : TRUE
                    actions == tracks[ownerId].actions
                    actionIndex == CHOOSE i \in 1..Len(actions) : actions[i].id = actionId
                    old == actions[actionIndex]
                    proposed == [old EXCEPT
                                    !.startTime = IF updates.startTime = -1 THEN @ ELSE updates.startTime,
                                    !.duration = IF updates.duration = -1 THEN @ ELSE updates.duration]
                    timing == updates.startTime # -1 \/ updates.duration # -1
                    hasOverlap == \E i \in 1..Len(actions) :
                                      /\ actions[i].id # actionId
                                      /\ Overlaps(proposed.startTime,
                                                  proposed.startTime + proposed.duration, actions[i])
                IN  IF timing /\ hasOverlap THEN UNCHANGED <<history, historyIndex>>
                    ELSE handleStateChange(
                             WithTrack(tracks, ownerId,
                                       Track(FreshRef, [actions EXCEPT ![actionIndex] = proposed])))
    /\ UNCHANGED <<isPlaying, currentTime>>
    /\ EngineUnchanged

\* groupTrack.actions.forEach: a MOVE for every action of the group, and a
\* TURN after it for a TURN or a WHEEL, with the action's start and duration.
RECURSIVE Bake(_, _)
Bake(groupActions, id) ==
    IF groupActions = <<>> THEN <<>>
    ELSE LET action == groupActions[1]
             move == EditorAction(id, "MOVE", action.startTime, action.duration)
             turn == EditorAction(id + 1, "TURN", action.startTime, action.duration)
         IN  IF action.type \in {"TURN", "WHEEL"}
             THEN <<move, turn>> \o Bake(Tail(groupActions), id + 2)
             ELSE <<move>> \o Bake(Tail(groupActions), id + 1)

\* selectedEntities.forEach: the tracks after the members ents (in the
\* order of the entities) have been given the baked actions.  The track an
\* entity has already keeps its array (its ref), which is pushed onto.
RECURSIVE BakeAll(_, _, _, _)
BakeAll(tracks, ents, id, ref) ==
    IF ents = <<>> THEN tracks
    ELSE LET ent == ents[1]
             baking == "g1" \in DOMAIN tracks /\ Len(tracks["g1"].actions) > 0
             own == IF ent \in DOMAIN tracks THEN tracks[ent] ELSE Track(ref, <<>>)
             baked == Bake(tracks["g1"].actions, id)
         IN  IF ~baking THEN tracks
             ELSE BakeAll(WithTrack(tracks, ent, Track(own.ref, own.actions \o baked)),
                          Tail(ents), id + Len(baked), ref + 1)

\* The history after arrays of it have been pushed onto: every track that
\* holds an array of newTracks holds its actions.
WrittenTo(hist, newTracks) ==
    [k \in 1..Len(hist) |->
        [hist[k] EXCEPT !.tracks =
            [o \in DOMAIN hist[k].tracks |->
                IF \E n \in DOMAIN newTracks : newTracks[n].ref = hist[k].tracks[o].ref
                THEN newTracks[CHOOSE n \in DOMAIN newTracks : newTracks[n].ref = hist[k].tracks[o].ref]
                ELSE hist[k].tracks[o]]]]

\* handleUngroup with the entities of `selected` selected
handleUngroup(selected) ==
    /\ CanPush
    /\ LET members == SelectSeq(<<"m1", "m2">>, LAMBDA e : e \in selected /\ e \in currentState.grouped)
           baked == BakeAll(currentState.tracks, members, FreshId, FreshRef)
           grouped == currentState.grouped \ selected
           emptied == members # <<>> /\ grouped = {}
           newTracks == IF emptied
                        THEN [o \in DOMAIN baked \ {"g1"} |-> baked[o]]
                        ELSE baked
       IN  pushStateOnto(WrittenTo(history, baked),
                         [currentState EXCEPT !.grouped = grouped, !.tracks = newTracks])
    /\ UNCHANGED <<isPlaying, currentTime>>
    /\ EngineUnchanged

\* The times the editor seeks to and drags an action to, and the durations
\* it gives an action.
MaxStart == 3
EditTimes == 0..MaxStart
EditDurations == {1, 2, 3}
EditUpdates ==
    {[startTime |-> t, duration |-> -1] : t \in EditTimes}
    \cup {[startTime |-> -1, duration |-> d] : d \in EditDurations}
    \cup {[startTime |-> -1, duration |-> -1]}

\* The drawings the editor starts from: m1 and m2 are the members of g1; g1
\* has no track or one of a MOVE and a WHEEL back to back; m1 has no track
\* or one of a single MOVE.  No two actions of a track overlap.
EditDrawings ==
    {Drawing(DefaultDuration, {"m1", "m2"}, tracks) :
        tracks \in {NoTracks,
                    [o \in {"g1"} |-> Track(1, <<EditorAction(1, "MOVE", 0, 2), EditorAction(2, "WHEEL", 2, 1)>>)],
                    [o \in {"m1"} |-> Track(1, <<EditorAction(1, "MOVE", 1, 2)>>)],
                    [o \in {"g1", "m1"} |->
                        IF o = "g1" THEN Track(1, <<EditorAction(1, "MOVE", 0, 2)>>)
                        ELSE Track(2, <<EditorAction(2, "MOVE", 1, 2)>>)]}}

InitEditor ==
    /\ EngineAtRest
    /\ \E d \in EditDrawings : InitSimulator(d)

NextEditor ==
    \/ \E t \in EditTimes : onSeek(t)
    \/ \E ownerId \in Owners, type \in {"MOVE", "TURN", "WHEEL"} : handleAddAction(ownerId, type)
    \/ \E ownerId \in Owners, actionId \in ActionIds(currentState) : handleDeleteAction(ownerId, actionId)
    \/ \E actionId \in ActionIds(currentState), updates \in EditUpdates : handleUpdateAction(actionId, updates)
    \/ \E selected \in (SUBSET {"m1", "m2"}) \ {{}} : handleUngroup(selected)

SpecEditor == InitEditor /\ [][NextEditor]_vars

\* ------------------------------------------------------------------------
\* C27  The editor keeps the actions of a track from overlapping
\* ------------------------------------------------------------------------

\* No two actions of a track of the drawing have intersecting half-open
\* intervals [startTime, startTime + duration).
NoOverlap(d) ==
    \A o \in DOMAIN d.tracks :
        \A i, j \in 1..Len(d.tracks[o].actions) :
            i < j => ~Overlaps(d.tracks[o].actions[i].startTime,
                               d.tracks[o].actions[i].startTime + d.tracks[o].actions[i].duration,
                               d.tracks[o].actions[j])

\* C27: after any sequence of add-action, update-action, delete-action and
\* ungroup operations on a drawing without overlap, no track of the current
\* ParadeState holds two actions that overlap.
C27_NoOverlapKept == NoOverlap(currentState)

\* ------------------------------------------------------------------------
\* The canvas: renderPaths
\* ------------------------------------------------------------------------

\* x ?? dflt for a number: undefined and null are nullish
OrNullish(x, dflt) == IF x \in {Undef, JsonNull} THEN dflt ELSE x

\* track.actions.forEach: the start point of the segment drawn for each
\* action in stored order, <<>> for an action that is not a MOVE; the next
\* segment starts at the target of the one before.
RECURSIVE PathSegments(_, _, _)
PathSegments(actions, currentX, currentY) ==
    IF actions = <<>> THEN <<>>
    ELSE LET action == actions[1]
             targetX == OrNullish(action.targetX, currentX)
             targetY == OrNullish(action.targetY, currentY)
         IN  IF action.type = "MOVE"
             THEN << <<currentX, currentY>> >> \o PathSegments(Tail(actions), targetX, targetY)
             ELSE << <<>> >> \o PathSegments(Tail(actions), currentX, currentY)

\* The start points renderPaths draws for the track of ownerId (<<>> where
\* it draws nothing): entities and groups are those of the canvas's
\* parade, actions the stored actions of the track.
renderPaths(entities, groups, ownerId, actions) ==
    IF ownerId \in groups
    THEN LET members == SelectSeq(entities, LAMBDA e : e.groupId = ownerId)
             anchorPos == getAnchorPos(entities, ownerId,
                                       IF actions = <<>> THEN "TL"
                                       ELSE OrString(actions[1].groupAnchor, "TL"))
         IN  IF Len(members) = 0 THEN <<>>
             ELSE PathSegments(actions, anchorPos[1], anchorPos[2])
    ELSE LET found == {i \in 1..Len(entities) : entities[i].id = ownerId}
             entity == entities[CHOOSE i \in found : \A j \in found : i <= j]
         IN  IF found = {} THEN <<>>
             ELSE PathSegments(actions, entity.x, entity.y)

\* displayState: the parade the canvas is given is the snapshot of the
\* current time once that is above 0, the drawn state before.
displayState ==
    IF Called /\ RLt(I(0), time) THEN Structure(heap, result)
    ELSE Structure(heap, parade)

\* ------------------------------------------------------------------------
\* C28  The path overlay against the engine
\* ------------------------------------------------------------------------

\* Where the engine has the owner of a track when one of its actions
\* starts: the entity's position, or the point of the members' bounding box
\* that the action's own anchor code names.
EnginePoint(ownerId, action) ==
    LET at == Evaluation(scenario, action.startTime).entities
    IN  IF ownerId = "e1" THEN <<at[1].x, at[1].y>>
        ELSE AnchorPoint([k \in 1..(NEntities - 1) |-> at[k + 1]], action.groupAnchor)

\* C28: for every track, the start point the overlay draws for each MOVE
\* segment is the position the engine gives the owner at that action's
\* startTime, whatever the stored order of the actions, their anchor codes
\* and the TURN and WHEEL actions between them.
C28_OverlayAgrees ==
    \A k \in 1..Len(parade.tracks) :
        LET ownerId == parade.tracks[k].ownerId
            actions == heap.acts[parade.tracks[k].actions]
            drawn == renderPaths(displayState.entities, DOMAIN displayState.groups, ownerId, actions)
        IN  \A i \in 1..Len(actions) :
                actions[i].type = "MOVE" =>
                    /\ drawn # <<>>
                    /\ drawn[i] = EnginePoint(ownerId, actions[i])

\* ------------------------------------------------------------------------
\* Tracks in every key order: e1, the group g1 and its member m1 each have
\* a track (individualOverrides: a member of a group with a track of its
\* own), and the tracks map holds them in any order of insertion.
\* ------------------------------------------------------------------------

OwnTracks ==
    <<[ownerId |-> "e1", actions |-> 1],
      [ownerId |-> "g1", actions |-> 2],
      [ownerId |-> MemberIds[1], actions |-> 3]>>

\* Object.keys(baseState.animation.tracks): the tracks in each order
KeyOrders ==
    {[i \in 1..3 |-> OwnTracks[p[i]]] :
        p \in {q \in [1..3 -> 1..3] : \A i, j \in 1..3 : q[i] = q[j] => i = j}}

StateInOrder(order) == [entities |-> 1, groups |-> 1, tracks |-> order]

OrderEntityTracks == {<<>>, <<Move(0, P(2, 2), "DIRECT", "", <<>>, "")>>}

OrderGroupTracks ==
    {<<>>,
     <<Move(0, P(2, 2), "DIRECT", "", <<>>, "BR")>>,
     <<Wheel(0, 2, I(180), "CENTER")>>}

OrderMemberTracks ==
    {<<>>, <<Move(0, P(3, 3), "DIRECT", "", <<>>, "")>>, <<Turn(0, I(90))>>}

InitOrder ==
    \E etr \in OrderEntityTracks, gtr \in OrderGroupTracks, mtr \in OrderMemberTracks,
       order \in KeyOrders :
        InitWithState([e1 |-> Pose(I(0), I(0), I(0)), members |-> GroupBase,
                       etrack |-> etr, gtrack |-> gtr, xtrack |-> mtr],
                      StateInOrder(order))

SpecOrder == InitOrder /\ [][Next]_vars

\* ------------------------------------------------------------------------
\* C29  The order of the tracks map
\* ------------------------------------------------------------------------

\* C29: the entities of the snapshot are those the function returns for the
\* same base state with its tracks held in any other key order, also when
\* a member of the group has a track of its own beside the group's.
C29_TrackOrderIndependent ==
    Called =>
        \A order \in KeyOrders :
            Structure(heap, result).entities
                = EvaluationIn(scenario, StateInOrder(order), time).entities

\* ------------------------------------------------------------------------
\* The Simulator: undo and redo
\* ------------------------------------------------------------------------

handleUndo ==
    /\ IF historyIndex > 0 THEN historyIndex' = historyIndex - 1
       ELSE UNCHANGED historyIndex
    /\ UNCHANGED <<history, isPlaying, currentTime>>
    /\ EngineUnchanged

handleRedo ==
    /\ IF historyIndex < Len(history) - 1 THEN historyIndex' = historyIndex + 1
       ELSE UNCHANGED historyIndex
    /\ UNCHANGED <<history, isPlaying, currentTime>>
    /\ EngineUnchanged

NextHistory == NextEditor \/ handleUndo \/ handleRedo

SpecHistory == InitEditor /\ [][NextHistory]_vars

\* ------------------------------------------------------------------------
\* C30  The undo history
\* ------------------------------------------------------------------------

\* The ParadeState object a state of the history is: its fields other
\* than the contents of the arrays of its tracks.
Identity(d) ==
    [duration |-> d.duration, grouped |-> d.grouped,
     tracks |-> [o \in DOMAIN d.tracks |-> d.tracks[o].ref]]

\* C30: historyIndex always names a state of the history; a step that
\* pushes a state keeps the states up to the current one, drops those after
\* it and makes the pushed state the last and the current one; undo at
\* index 0 and redo at the last index change nothing, and elsewhere they
\* move the index by one over an unchanged history.
C30_HistoryWellFormed ==
    /\ [](0 <= historyIndex /\ historyIndex < Len(history))
    /\ [][/\ history' # history =>
                /\ Len(history') = historyIndex + 2
                /\ historyIndex' = Len(history') - 1
                /\ \A k \in 1..(historyIndex + 1) : Identity(history'[k]) = Identity(history[k])
          /\ handleUndo =>
                /\ history' = history
                /\ historyIndex' = (IF historyIndex = 0 THEN 0 ELSE historyIndex - 1)
          /\ handleRedo =>
                /\ history' = history
                /\ historyIndex' = (IF historyIndex = Len(history) - 1 THEN historyIndex
                                    ELSE historyIndex + 1)]_vars

\* A state has been pushed after an undo: the history of an empty drawing
\* holds two states, and the array of the second is the second the editor
\* has made (the state that held the first has been dropped).
C30_Witness ==
    /\ Len(history) = 2
    /\ historyIndex = 1
    /\ Refs(history[1]) = {}
    /\ Refs(history[2]) = {2}

====
